---- MODULE Spec2Model ----
(***************************************************************************)
(* Room signalling, session negotiation and chunked file transfer of the   *)
(* WebRTCService.  The repository holds two versions of the service:       *)
(*   impl = "L"  src/src/services/webrtc.ts  (localStorage room document,  *)
(*               per-reader cursor lastMessageIndex)                       *)
(*   impl = "H"  src/unnamed/part_000        (HTTP room document, shared   *)
(*               processedBy marks, whole-document GET / PUT; its          *)
(*               peer-joined message is written "join")                    *)
(* Both are modelled; Init picks one and the actions of that version run.  *)
(*                                                                         *)
(* The transport is abstracted: conn[p][q] is the connection p created     *)
(* last for q (a connection that part_000 replaced and left open is not    *)
(* followed further); a transport connects once both ends hold a local and *)
(* a remote description; it goes down only after the far end was closed.   *)
(* Message ids stand for the position of a message in the order of writes; *)
(* the variables marked history record what happened; no step of the      *)
(* service reads them, only the bounds on the length of a run do.          *)
(***************************************************************************)
EXTENDS Integers, Sequences, FiniteSets, TLC

VARIABLES
  impl,              \* which version of the service runs
  store,             \* the room document: [exists, peers, messages]
  nextId,            \* id given to the next message written to the log
  roomId,            \* roomId[p]: this.roomId is set
  signalingInterval, \* signalingInterval[p]: the periodic poll timer is active
  lastMessageIndex,  \* lastMessageIndex[p] (webrtc.ts cursor)
  peers,             \* peers[p]: keys of the this.peers map
  dataChannels,      \* dataChannels[p]: peers that have a data channel
  conn,              \* conn[p][q]: the RTCPeerConnection p last created for q
  tasks,             \* tasks[p]: handlers suspended at an await (webrtc.ts)
  joinPending,       \* joinPending[p]: joinRoom suspended before startSignaling
  threads,           \* threads[p]: running async calls (part_000)
  dispatched,        \* history: ids of the messages p's relay dispatched, in order
  rejected,          \* history: rejected[p] = the messages whose offer, answer or candidate
                     \*   handler rejected at p since p last called disconnect
  sent,              \* history: every message a send operation wrote to the log
  cbConnected,       \* history: cbConnected[p][q] = calls of onPeerConnected(q)
  cbDisconnected,    \* history: cbDisconnected[p][q] = calls of onPeerDisconnected(q)
  made,              \* history: made[p][q] = connections p created for q
  calls,             \* history: calls and events so far [join, leave, left, ice,
                     \*   bad, pollFail, offline]
  csz,               \* the chunk size of the run (chunkSize of sendFile)
  file,              \* the bytes of the file handed to sendFile
  snd,               \* the sender's transfer [state, offset, i, total, errors, rec, told]
  channel,           \* data channel: messages sent and not yet delivered, in order
  rcv,               \* the receiver's transfer [known, size, status, chunks]
  handed,            \* the bytes the receiver hands over at completion
  wire,              \* history: every message sent on the channel [kind, size, len]
  progress,          \* history: progress[side] = values given to onTransferProgress
  complete,          \* history: complete[side] = calls of onTransferComplete
  rl,                \* the relay over several rooms: [roomId, handle, timers,
                     \*   cursor, exists, log, examined]
  mx                 \* two transfers at once on one channel: [file, st, off, chan,
                     \*   rf, out, prog, done], the first three and the last four
                     \*   by transfer id

sigVars == <<impl, store, nextId, roomId, signalingInterval, lastMessageIndex, peers,
             dataChannels, conn, tasks, joinPending, threads, dispatched, rejected,
             sent, cbConnected, cbDisconnected, made, calls>>

xferVars == <<csz, file, snd, channel, rcv, handed, wire, progress, complete, mx, rl>>

vars == <<sigVars, xferVars>>

(***************************************************************************)
(* Bounds                                                                  *)
(***************************************************************************)
Peers == {"A", "B", "C"}

\* createRoom draws a fresh room id; one room is modelled, so one process (any
\* of them, they are alike) is the one that may create it.
Creator == "A"

\* part_000 takes a step per request, so its runs are explored with two of the
\* processes active.
H_Peers == {"A", "B"}

\* The two ends of the file transfers that are followed.
Sender == "A"

Receiver == "B"

MaxMsgs == 4        \* messages ever written to the room log (webrtc.ts)
H_MaxMsgs == 3      \* messages ever written to the room log (part_000)
MaxJoins == 1       \* joinRoom calls of one process over the run
MaxLeaves == 1      \* disconnect calls over the run
MaxCb == 2          \* callback counters saturate here
MaxDispatch == 3    \* messages one relay dispatches over the run
MaxIce == 1         \* ICE candidates reported over the run
MaxBad == 1         \* malformed answers written to the log
MaxPollFails == 1   \* failing polls of one process
MaxOffline == 1     \* createRoom or joinRoom calls of one process with the store down
MaxPolls == 1       \* polls of one process in flight at once (part_000)

NoConn == [role |-> "none", local |-> FALSE, remote |-> FALSE, state |-> "closed",
           ice |-> FALSE]

NewConn(initiator) ==
  [role |-> IF initiator THEN "initiator" ELSE "answerer",
   local |-> FALSE, remote |-> FALSE, state |-> "new", ice |-> FALSE]

Bump(n) == IF n < MaxCb THEN n + 1 ELSE n

Count(s, x) == Cardinality({i \in 1..Len(s) : s[i] = x})

SubSeqFrom(s, i) == IF i >= Len(s) THEN <<>> ELSE SubSeq(s, i + 1, Len(s))

EmptyRoom == [exists |-> FALSE, peers |-> <<>>, messages |-> <<>>]

Msg(id, type, from, to) == [id |-> id, type |-> type, from |-> from, to |-> to, pb |-> {}]

SentRec(m) == [id |-> m.id, type |-> m.type, from |-> m.from, to |-> m.to]

(***************************************************************************)
(* webrtc.ts (impl = "L")                                                  *)
(***************************************************************************)

\* The fields of one service instance that a handler reads and writes.
LS(p) == [peers |-> peers[p], dc |-> dataChannels[p], conn |-> conn[p],
          tasks |-> tasks[p], disp |-> dispatched[p], rej |-> rejected[p],
          cbc |-> cbConnected[p], cbd |-> cbDisconnected[p], made |-> made[p]]

\* handlePeerLeave: close the connection of the map entry, delete the entry and
\* the data channel, call onPeerDisconnected unconditionally.  A handler that is
\* suspended on the closed connection rejects when it resumes (it sends nothing),
\* so its task is dropped here.
handlePeerLeave(ls, q) ==
  [ls EXCEPT !.conn[q] = IF q \in ls.peers THEN [@ EXCEPT !.state = "closed"] ELSE @,
             !.peers = @ \ {q},
             !.dc = @ \ {q},
             !.tasks = {t \in @ : t.peer # q},
             !.cbd[q] = Bump(@)]

\* createPeerConnection with the roles exchanged.
createPeerConnection_swapped(ls, q, initiator, id) ==
  [ls EXCEPT !.conn[q] = NewConn(~initiator),
             !.made[q] = Bump(@),
             !.peers = @ \cup {q},
             !.dc = IF initiator THEN @ \cup {q} ELSE @,
             !.tasks = IF initiator
                         THEN @ \cup {[kind |-> "offer", peer |-> q, id |-> id]}
                         ELSE @]

\* createPeerConnection up to its first await: the map entry, and for the
\* initiator the data channel; the rest of the handler is a task.
createPeerConnection(ls, q, initiator, id) ==
  [ls EXCEPT !.conn[q] = NewConn(initiator),
             !.made[q] = Bump(@),
             !.peers = @ \cup {q},
             !.dc = IF initiator THEN @ \cup {q} ELSE @,
             !.tasks = IF initiator
                         THEN @ \cup {[kind |-> "offer", peer |-> q, id |-> id]}
                         ELSE @]

\* An awaited description or candidate call of a handler rejected: the handler
\* ends there.
Reject(ls, id, type) == [ls EXCEPT !.rej = Append(@, [id |-> id, type |-> type])]

\* handleAnswer that builds an answering session when the map has none.
handleAnswer_creates(ls, q) ==
  IF q \in ls.peers
    THEN IF ls.conn[q].role = "initiator" /\ ls.conn[q].local /\ ~ls.conn[q].remote
           THEN [ls EXCEPT !.conn[q].remote = TRUE]
           ELSE ls
    ELSE [ls EXCEPT !.conn[q] = NewConn(FALSE), !.peers = @ \cup {q}]

\* handleAnswer: setRemoteDescription(answer) succeeds only on a connection that
\* has its local offer set and no remote description yet.
handleAnswer(ls, q) ==
  IF /\ q \in ls.peers
     /\ ls.conn[q].role = "initiator"
     /\ ls.conn[q].local
     /\ ~ls.conn[q].remote
    THEN [ls EXCEPT !.conn[q].remote = TRUE]
    ELSE ls

\* handleOffer up to its first await; the answer is sent by the task.
handleOffer(ls, q, id) ==
  LET l1 == IF q \in ls.peers THEN ls ELSE createPeerConnection(ls, q, FALSE, id)
  IN [l1 EXCEPT !.tasks = @ \cup {[kind |-> "answer", peer |-> q, id |-> id]}]

\* handleSignalMessage up to the first await of the handler it calls.
handleSignalMessage(ls, m, p) ==
  LET l0 == [ls EXCEPT !.disp = Append(@, m.id)]
  IN CASE m.type = "join" ->
            LET l1 == [l0 EXCEPT !.cbc[m.from] = Bump(@)]
            IN IF m.from \notin l1.peers
                 THEN createPeerConnection(l1, m.from, TRUE, m.id)
                 ELSE l1
       [] m.type = "offer" ->
            IF m.to = p \/ m.to = "none" THEN handleOffer(l0, m.from, m.id) ELSE l0
       [] m.type = "answer" ->
            IF m.to # p THEN l0
            ELSE IF m.from \in l0.peers /\ handleAnswer(l0, m.from) = l0
              THEN Reject(l0, m.id, "answer")
              ELSE handleAnswer(l0, m.from)
       [] m.type = "bad-answer" ->
            IF m.to = p /\ m.from \in l0.peers THEN Reject(l0, m.id, "answer") ELSE l0
       [] m.type = "ice-candidate" ->
            IF m.to = p /\ m.from \in l0.peers /\ ~l0.conn[m.from].remote
              THEN Reject(l0, m.id, "ice-candidate")
              ELSE l0
       [] m.type = "leave" -> handlePeerLeave(l0, m.from)
       [] OTHER -> l0

RECURSIVE DispatchAll(_, _, _)
DispatchAll(ls, ms, p) ==
  IF ms = <<>> THEN ls
  ELSE DispatchAll(IF Head(ms).from # p THEN handleSignalMessage(ls, Head(ms), p)
                                         ELSE ls,
                   Tail(ms), p)

\* The handleOffer calls of one batch reach setRemoteDescription(offer) right
\* after the synchronous loop of the poll (their first await is on a resolved
\* promise).
AfterBatch(ls) ==
  [ls EXCEPT !.conn = [q \in Peers |->
      IF \E t \in ls.tasks : t.kind = "answer" /\ t.peer = q
        THEN [ls.conn[q] EXCEPT !.remote = TRUE]
        ELSE ls.conn[q]]]

\* pollForMessages: the messages from the cursor on, each not from the local
\* peer dispatched in log order, then the cursor moves to the end of the log.
pollForMessages(p) ==
  IF ~roomId[p] \/ ~store.exists
    THEN [ls |-> LS(p), cursor |-> lastMessageIndex[p]]
    ELSE [ls |-> AfterBatch(DispatchAll(LS(p),
                              SubSeqFrom(store.messages, lastMessageIndex[p]), p)),
          cursor |-> Len(store.messages)]

SetLocal(p, r) ==
  /\ Len(r.ls.disp) <= MaxDispatch
  /\ peers' = [peers EXCEPT ![p] = r.ls.peers]
  /\ dataChannels' = [dataChannels EXCEPT ![p] = r.ls.dc]
  /\ conn' = [conn EXCEPT ![p] = r.ls.conn]
  /\ tasks' = [tasks EXCEPT ![p] = r.ls.tasks]
  /\ dispatched' = [dispatched EXCEPT ![p] = r.ls.disp]
  /\ rejected' = [rejected EXCEPT ![p] = r.ls.rej]
  /\ cbConnected' = [cbConnected EXCEPT ![p] = r.ls.cbc]
  /\ cbDisconnected' = [cbDisconnected EXCEPT ![p] = r.ls.cbd]
  /\ made' = [made EXCEPT ![p] = r.ls.made]
  /\ lastMessageIndex' = [lastMessageIndex EXCEPT ![p] = r.cursor]

\* sendSignalMessage: read the room document, push, write back, in one
\* synchronous step; nothing is written when the document is absent.
sendSignalMessage(p, type, to) ==
  /\ nextId <= MaxMsgs
  /\ IF roomId[p] /\ store.exists
       THEN /\ store' = [store EXCEPT !.messages = Append(@, Msg(nextId, type, p, to))]
            /\ sent' = sent \cup {SentRec(Msg(nextId, type, p, to))}
            /\ nextId' = nextId + 1
       ELSE UNCHANGED <<store, sent, nextId>>

\* createRoom: a fresh room id, the room document written, startSignaling with
\* its initial poll.
L_CreateRoom(p) ==
  /\ impl = "L"
  /\ p = Creator
  /\ ~store.exists
  /\ ~roomId[p]
  /\ roomId' = [roomId EXCEPT ![p] = TRUE]
  /\ store' = [exists |-> TRUE, peers |-> <<p>>, messages |-> <<>>]
  /\ signalingInterval' = [signalingInterval EXCEPT ![p] = TRUE]
  /\ lastMessageIndex' = [lastMessageIndex EXCEPT ![p] = 0]
  /\ UNCHANGED <<xferVars, impl, nextId, peers, dataChannels, conn, tasks, joinPending, threads,
                 dispatched, rejected, sent, cbConnected, cbDisconnected, made, calls>>

\* A roster check that never finds the peer.
InRoster_none(ps, p) == FALSE

\* findIndex / find over the roster of the room document.
InRoster(ps, p) == \E i \in 1..Len(ps) : ps[i] = p

\* joinRoom up to the await of sendSignalMessage: roster entry, join message.
L_JoinRoom(p) ==
  /\ impl = "L"
  /\ calls.join[p] < MaxJoins
  /\ ~joinPending[p]
  /\ nextId <= MaxMsgs
  /\ roomId' = [roomId EXCEPT ![p] = TRUE]
  /\ LET base == IF store.exists THEN store
                 ELSE [exists |-> TRUE, peers |-> <<>>, messages |-> <<>>]
         withPeer == IF InRoster(base.peers, p) THEN base
                     ELSE [base EXCEPT !.peers = Append(@, p)]
     IN store' = [withPeer EXCEPT !.messages = Append(@, Msg(nextId, "join", p, "none"))]
  /\ sent' = sent \cup {SentRec(Msg(nextId, "join", p, "none"))}
  /\ nextId' = nextId + 1
  /\ joinPending' = [joinPending EXCEPT ![p] = TRUE]
  /\ calls' = [calls EXCEPT !.join[p] = @ + 1]
  /\ UNCHANGED <<xferVars, impl, signalingInterval, lastMessageIndex, peers, dataChannels, conn,
                 tasks, threads, dispatched, rejected, cbConnected, cbDisconnected, made>>

\* joinRoom after the await: startSignaling (timer and initial poll).  The
\* awaited promise is already resolved, so only calls the caller makes in the
\* same synchronous run (disconnect) come between the two halves in this process.
L_JoinRoomResume(p) ==
  /\ impl = "L"
  /\ joinPending[p]
  /\ joinPending' = [joinPending EXCEPT ![p] = FALSE]
  /\ signalingInterval' = [signalingInterval EXCEPT ![p] = TRUE]
  /\ SetLocal(p, pollForMessages(p))
  /\ UNCHANGED <<xferVars, impl, store, nextId, roomId, threads, sent, calls>>

\* The interval timer fires.
L_Poll(p) ==
  /\ impl = "L"
  /\ signalingInterval[p]
  /\ ~joinPending[p]
  /\ SetLocal(p, pollForMessages(p))
  /\ UNCHANGED <<xferVars, impl, store, nextId, roomId, signalingInterval, joinPending, threads,
                 sent, calls>>

\* A handler of a join resumes after createOffer and setLocalDescription and
\* sends the offer.
L_TaskOffer(p) ==
  /\ impl = "L"
  /\ ~joinPending[p]
  /\ \E t \in tasks[p] :
       /\ t.kind = "offer"
       /\ tasks' = [tasks EXCEPT ![p] = @ \ {t}]
       /\ conn' = [conn EXCEPT ![p][t.peer].local = TRUE]
       /\ sendSignalMessage(p, "offer", t.peer)
  /\ UNCHANGED <<xferVars, impl, roomId, signalingInterval, lastMessageIndex, peers, dataChannels,
                 joinPending, threads, dispatched, rejected, cbConnected, cbDisconnected, made, calls>>

\* handleOffer resumes after setRemoteDescription, createAnswer and
\* setLocalDescription, sends the answer and calls onPeerConnected.
L_TaskAnswer(p) ==
  /\ impl = "L"
  /\ ~joinPending[p]
  /\ \E t \in tasks[p] :
       /\ t.kind = "answer"
       /\ ~(conn[p][t.peer].role = "initiator" /\ ~conn[p][t.peer].local)
       /\ tasks' = [tasks EXCEPT ![p] = @ \ {t}]
       /\ conn' = [conn EXCEPT ![p][t.peer].local = TRUE, ![p][t.peer].remote = TRUE]
       /\ sendSignalMessage(p, "answer", t.peer)
       /\ cbConnected' = [cbConnected EXCEPT ![p][t.peer] = Bump(@)]
  /\ UNCHANGED <<xferVars, impl, roomId, signalingInterval, lastMessageIndex, peers, dataChannels,
                 joinPending, threads, dispatched, rejected, cbDisconnected, made, calls>>

\* setRemoteDescription(offer) on a connection that holds its own local offer:
\* the browser either rolls the local offer back (L_TaskAnswer) or rejects, and
\* then the handler sends nothing.
L_TaskAnswerReject(p) ==
  /\ impl = "L"
  /\ ~joinPending[p]
  /\ \E t \in tasks[p] :
       /\ t.kind = "answer"
       /\ conn[p][t.peer].role = "initiator"
       /\ tasks' = [tasks EXCEPT ![p] = @ \ {t}]
       /\ conn' = [conn EXCEPT ![p][t.peer].remote =
                     IF \E u \in tasks[p] \ {t} : u.kind = "answer" /\ u.peer = t.peer
                       THEN @ ELSE FALSE]
       /\ rejected' = [rejected EXCEPT ![p] = Append(@, [id |-> t.id, type |-> "offer"])]
  /\ UNCHANGED <<xferVars, impl, store, nextId, roomId, signalingInterval, lastMessageIndex, peers,
                 dataChannels, joinPending, threads, dispatched, sent, cbConnected,
                 cbDisconnected, made, calls>>

\* onicecandidate: a connection with a local description reports a candidate.
L_IceCandidate(p, q) ==
  /\ impl = "L"
  /\ ~joinPending[p]
  /\ q \in peers[p]
  /\ conn[p][q].local
  /\ ~conn[p][q].ice
  /\ calls.ice < MaxIce
  /\ calls' = [calls EXCEPT !.ice = @ + 1]
  /\ conn' = [conn EXCEPT ![p][q].ice = TRUE]
  /\ sendSignalMessage(p, "ice-candidate", q)
  /\ UNCHANGED <<xferVars, impl, roomId, signalingInterval, lastMessageIndex, peers, dataChannels,
                 tasks, joinPending, threads, dispatched, rejected, cbConnected, cbDisconnected, made>>

\* Both ends hold a local and a remote description.
Negotiated(p, q) ==
  /\ q \in peers[p] /\ conn[p][q].local /\ conn[p][q].remote
  /\ p \in peers[q] /\ conn[q][p].local /\ conn[q][p].remote
  /\ conn[p][q].role # conn[q][p].role

\* onconnectionstatechange "connected" (only logged); on the answering side the
\* data channel arrives (ondatachannel).
L_TransportConnected(p, q) ==
  /\ impl = "L"
  /\ ~joinPending[p]
  /\ Negotiated(p, q)
  /\ conn[p][q].state = "new"
  /\ conn[q][p].state \in {"new", "connected"}
  /\ conn' = [conn EXCEPT ![p][q].state = "connected"]
  /\ dataChannels' = [dataChannels EXCEPT ![p] = @ \cup {q}]
  /\ UNCHANGED <<xferVars, impl, store, nextId, roomId, signalingInterval, lastMessageIndex, peers,
                 tasks, joinPending, threads, dispatched, rejected, sent, cbConnected,
                 cbDisconnected, made, calls>>

\* The far end of an established connection is gone.
RemoteGone(p, q) == p \notin peers[q] \/ conn[q][p].state \in {"closed"}

\* onconnectionstatechange "disconnected" or "failed": handlePeerLeave.
L_TransportDown(p, q) ==
  /\ impl = "L"
  /\ ~joinPending[p]
  /\ q \in peers[p]
  /\ conn[p][q].state = "connected"
  /\ RemoteGone(p, q)
  /\ LET ls == handlePeerLeave(LS(p), q)
     IN SetLocal(p, [ls |-> ls, cursor |-> lastMessageIndex[p]])
  /\ UNCHANGED <<xferVars, impl, store, nextId, roomId, signalingInterval, joinPending, threads,
                 sent, calls>>

\* A disconnect that closes no connection.
closePeerConnections_none(p) == UNCHANGED conn

\* The loop of disconnect over the session map: close() on every connection.
closePeerConnections(p) ==
  conn' = [conn EXCEPT ![p] = [q \in Peers |->
             IF q \in peers[p] THEN [conn[p][q] EXCEPT !.state = "closed"]
             ELSE conn[p][q]]]

\* disconnect: timer cleared, leave sent, every connection closed, maps
\* cleared, cursor reset.
L_Disconnect(p) ==
  /\ impl = "L"
  /\ calls.leave < MaxLeaves
  /\ roomId[p]
  /\ signalingInterval' = [signalingInterval EXCEPT ![p] = FALSE]
  /\ sendSignalMessage(p, "leave", "none")
  /\ closePeerConnections(p)
  /\ peers' = [peers EXCEPT ![p] = {}]
  /\ dataChannels' = [dataChannels EXCEPT ![p] = {}]
  /\ tasks' = [tasks EXCEPT ![p] = {}]
  /\ lastMessageIndex' = [lastMessageIndex EXCEPT ![p] = 0]
  /\ calls' = [calls EXCEPT !.leave = @ + 1, !.left[p] = @ + 1]
  /\ rejected' = [rejected EXCEPT ![p] = <<>>]
  /\ UNCHANGED <<xferVars, impl, roomId, joinPending, threads, dispatched, cbConnected,
                 cbDisconnected, made>>

(***************************************************************************)
(* part_000 (impl = "H")                                                   *)
(* Every await on a fetch is one step: the request takes effect on the     *)
(* room document and the caller runs on to its next await.                 *)
(***************************************************************************)
NoDoc == [exists |-> FALSE, peers |-> <<>>, messages |-> <<>>]

NoSend == [type |-> "none", to |-> "none"]

Thread(kind, pc, doc, todo, sdoc, smsg) ==
  [kind |-> kind, pc |-> pc, doc |-> doc, todo |-> todo, sdoc |-> sdoc, smsg |-> smsg]

PollThreads(p) == {t \in threads[p] : t.kind = "poll"}

\* getRoomData: the document, or null when there is none.
getRoomData == store

\* A filter that lets every message of the log through.
Unread_all(ms, p) == [i \in 1..Len(ms) |-> ms[i].id]

\* The poll's filter: addressed to the local peer or broadcast, not from it, not
\* yet marked by it.  The ids of the unread messages, in log order.
RECURSIVE Unread(_, _)
Unread(ms, p) ==
  IF ms = <<>> THEN <<>>
  ELSE LET m == Head(ms)
       IN IF (m.to = p \/ m.to = "broadcast") /\ m.from # p /\ p \notin m.pb
            THEN <<m.id>> \o Unread(Tail(ms), p)
            ELSE Unread(Tail(ms), p)

MsgOf(doc, id) == doc.messages[CHOOSE i \in 1..Len(doc.messages) : doc.messages[i].id = id]

\* message.processedBy.push(localId) on the poll's copy of the document.
MarkProcessed(doc, id, p) ==
  [doc EXCEPT !.messages = [i \in 1..Len(doc.messages) |->
     IF doc.messages[i].id = id
       THEN [doc.messages[i] EXCEPT !.pb = @ \cup {p}]
       ELSE doc.messages[i]]]

\* createPeer: a new connection stored under the peer id (an entry already
\* there is replaced, its connection left open).
createPeer(ls, q, isInitiator) ==
  [ls EXCEPT !.conn[q] = NewConn(isInitiator),
             !.made[q] = Bump(@),
             !.peers = @ \cup {q},
             !.dc = IF isInitiator THEN @ \cup {q} ELSE @ \ {q}]

\* The poll loop from the handler call of the next unread message up to the
\* next await on the network or the transport.  pc of the result: "sget" (the
\* handler is about to send), "resume" (an awaited transport call succeeded),
\* "throw" (it rejected: the poll's catch ends the poll, nothing is saved),
\* "save" (loop over, marks to be written) or "done".
RECURSIVE pollLoop(_, _, _, _)
pollLoop(ls, th, p, any) ==
  IF th.todo = <<>>
    THEN [ls |-> ls, th |-> [th EXCEPT !.pc = IF any THEN "save" ELSE "done"]]
    ELSE
      LET m == MsgOf(th.doc, Head(th.todo))
          l0 == [ls EXCEPT !.disp = Append(@, m.id)]
          marked == [th EXCEPT !.doc = MarkProcessed(@, m.id, p), !.todo = Tail(@)]
      IN CASE m.type = "join" ->
                [ls |-> createPeer(l0, m.from, TRUE),
                 th |-> [th EXCEPT !.pc = "sget",
                                   !.smsg = [type |-> "offer", to |-> m.from]]]
           [] m.type = "offer" ->
                [ls |-> createPeer(l0, m.from, FALSE),
                 th |-> [th EXCEPT !.pc = "sget",
                                   !.smsg = [type |-> "answer", to |-> m.from]]]
           [] m.type = "answer" ->
                IF m.from \notin l0.peers THEN pollLoop(l0, marked, p, TRUE)
                ELSE IF handleAnswer(l0, m.from) # l0
                  THEN [ls |-> handleAnswer(l0, m.from), th |-> [th EXCEPT !.pc = "resume"]]
                  ELSE [ls |-> Reject(l0, m.id, "answer"),
                        th |-> [th EXCEPT !.pc = "throw"]]
           [] m.type = "bad-answer" ->
                IF m.from \notin l0.peers THEN pollLoop(l0, marked, p, TRUE)
                ELSE [ls |-> Reject(l0, m.id, "answer"), th |-> [th EXCEPT !.pc = "throw"]]
           [] m.type = "ice-candidate" ->
                IF m.from \notin l0.peers THEN pollLoop(l0, marked, p, TRUE)
                ELSE IF l0.conn[m.from].remote
                  THEN [ls |-> l0, th |-> [th EXCEPT !.pc = "resume"]]
                  ELSE [ls |-> Reject(l0, m.id, "ice-candidate"),
                        th |-> [th EXCEPT !.pc = "throw"]]
           [] OTHER -> pollLoop(l0, marked, p, TRUE)

Live(th) == th.pc \notin {"done", "throw"}

SetThreads(p, old, new) ==
  threads' = [threads EXCEPT ![p] = (@ \ old) \cup {t \in new : Live(t)}]


\* createRoom: the room document is PUT, then startSignalingPolling sets the
\* timer; its initial poll is a poll like the timer's.
H_CreateRoom(p) ==
  /\ impl = "H"
  /\ p = Creator
  /\ ~store.exists
  /\ ~roomId[p]
  /\ roomId' = [roomId EXCEPT ![p] = TRUE]
  /\ store' = [exists |-> TRUE, peers |-> <<p>>, messages |-> <<>>]
  /\ signalingInterval' = [signalingInterval EXCEPT ![p] = TRUE]
  /\ UNCHANGED <<xferVars, impl, nextId, lastMessageIndex, peers, dataChannels, conn, tasks,
                 joinPending, threads, dispatched, rejected, sent, cbConnected, cbDisconnected, made,
                 calls>>

\* A startSignalingPolling that sets no timer.
startSignalingPolling_skipped(p) == UNCHANGED signalingInterval

\* startSignalingPolling: the timer is set.
startSignalingPolling(p) ==
  signalingInterval' = [signalingInterval EXCEPT ![p] = TRUE]

\* joinRoom up to the answer of getRoomData: no room, so only polling starts; a
\* room without this peer in its roster, so the roster is written back; otherwise
\* the join message is sent (its own GET comes next).
H_JoinRoom(p) ==
  /\ impl = "H"
  /\ calls.join[p] < MaxJoins
  /\ ~\E th \in threads[p] : th.kind = "join"
  /\ roomId' = [roomId EXCEPT ![p] = TRUE]
  /\ calls' = [calls EXCEPT !.join[p] = @ + 1]
  /\ IF ~getRoomData.exists
       THEN /\ startSignalingPolling(p)
            /\ UNCHANGED threads
       ELSE /\ UNCHANGED signalingInterval
            /\ IF InRoster(getRoomData.peers, p)
                 THEN SetThreads(p, {},
                        {Thread("join", "sget", NoDoc, <<>>, NoDoc,
                                [type |-> "join", to |-> "broadcast"])})
                 ELSE SetThreads(p, {},
                        {Thread("join", "save",
                                [getRoomData EXCEPT !.peers = Append(@, p)],
                                <<>>, NoDoc, NoSend)})
  /\ UNCHANGED <<xferVars, impl, store, nextId, lastMessageIndex, peers, dataChannels, conn, tasks,
                 joinPending, dispatched, rejected, sent, cbConnected, cbDisconnected, made>>

\* saveRoomData of joinRoom: the whole document is overwritten with the copy.
H_JoinSave(p) ==
  /\ impl = "H"
  /\ \E th \in threads[p] :
       /\ th.kind = "join" /\ th.pc = "save"
       /\ store' = th.doc
       /\ SetThreads(p, {th},
            {[th EXCEPT !.pc = "sget", !.doc = NoDoc,
                        !.smsg = [type |-> "join", to |-> "broadcast"]]})
  /\ UNCHANGED <<xferVars, impl, nextId, roomId, signalingInterval, lastMessageIndex, peers,
                 dataChannels, conn, tasks, joinPending, dispatched, rejected, sent, cbConnected,
                 cbDisconnected, made, calls>>

\* setInterval fires while the timer is set, whether or not an earlier poll is
\* still running; getRoomData resolves, the unread messages are selected from
\* the copy and the loop runs to its first await.
H_Poll(p) ==
  /\ impl = "H"
  /\ signalingInterval[p]
  /\ Cardinality(PollThreads(p)) < MaxPolls
  /\ getRoomData.exists
  /\ LET t0 == Thread("poll", "get", getRoomData, Unread(getRoomData.messages, p),
                      NoDoc, NoSend)
         r == pollLoop(LS(p), t0, p, t0.todo # <<>>)
     IN /\ t0.todo # <<>>
        /\ SetThreads(p, {}, {r.th})
        /\ SetLocal(p, [ls |-> r.ls, cursor |-> lastMessageIndex[p]])
  /\ UNCHANGED <<xferVars, impl, store, nextId, roomId, signalingInterval, joinPending, sent, calls>>

\* A handler's awaited transport call has resolved: the message is marked on
\* the poll's copy and the loop goes on.
H_Resume(p) ==
  /\ impl = "H"
  /\ \E th \in threads[p] :
       /\ th.kind = "poll" /\ th.pc = "resume"
       /\ LET t0 == [th EXCEPT !.doc = MarkProcessed(@, Head(th.todo), p),
                               !.todo = Tail(@)]
              r == pollLoop(LS(p), t0, p, TRUE)
          IN /\ SetThreads(p, {th}, {r.th})
             /\ SetLocal(p, [ls |-> r.ls, cursor |-> lastMessageIndex[p]])
  /\ UNCHANGED <<xferVars, impl, store, nextId, roomId, signalingInterval, joinPending, sent, calls>>

\* if (unreadMessages.length > 0) saveRoomData(roomData): the document is
\* overwritten with the poll's copy and its marks.
H_PollSave(p) ==
  /\ impl = "H"
  /\ \E th \in threads[p] :
       /\ th.kind = "poll" /\ th.pc = "save"
       /\ store' = th.doc
       /\ SetThreads(p, {th}, {})
  /\ UNCHANGED <<xferVars, impl, nextId, roomId, signalingInterval, lastMessageIndex, peers,
                 dataChannels, conn, tasks, joinPending, dispatched, rejected, sent, cbConnected,
                 cbDisconnected, made, calls>>

\* sendSignalingMessage, first half: the description calls of the handler have
\* resolved (they reject on a closed connection, and the poll ends), and
\* getRoomData returns the copy the message will be pushed on.
H_SendGet(p) ==
  /\ impl = "H"
  /\ \E th \in threads[p] :
       /\ th.pc = "sget"
       /\ IF th.kind = "poll" /\ conn[p][th.smsg.to].state = "closed"
            THEN /\ SetThreads(p, {th}, {})
                 /\ rejected' = IF th.smsg.type = "answer"
                                  THEN [rejected EXCEPT ![p] =
                                          Append(@, [id |-> Head(th.todo), type |-> "offer"])]
                                  ELSE rejected
                 /\ UNCHANGED conn
            ELSE /\ SetThreads(p, {th}, {[th EXCEPT !.pc = "sput", !.sdoc = getRoomData]})
                 /\ conn' = IF th.kind # "poll" THEN conn
                            ELSE [conn EXCEPT ![p][th.smsg.to].local = TRUE,
                                              ![p][th.smsg.to].remote =
                                                 IF th.smsg.type = "answer" THEN TRUE ELSE @]
                 /\ UNCHANGED rejected
  /\ UNCHANGED <<xferVars, impl, store, nextId, roomId, signalingInterval, lastMessageIndex, peers,
                 dataChannels, tasks, joinPending, dispatched, sent, cbConnected,
                 cbDisconnected, made, calls>>

\* sendSignalingMessage, second half: the copy with the message pushed is PUT
\* as the whole document; then the caller goes on.  At most max messages are
\* ever written.
sendSignalingMessage(p, max) ==
  /\ impl = "H"
  /\ nextId <= max
  /\ \E th \in threads[p] :
       /\ th.pc = "sput"
       /\ LET m == Msg(nextId, th.smsg.type, p, th.smsg.to)
          IN /\ store' = [exists |-> TRUE, peers |-> th.sdoc.peers,
                          messages |-> Append(th.sdoc.messages, m)]
             /\ sent' = sent \cup {SentRec(m)}
       /\ nextId' = nextId + 1
       /\ CASE th.kind = "join" ->
                 /\ startSignalingPolling(p)
                 /\ SetThreads(p, {th}, {})
                 /\ UNCHANGED <<peers, dataChannels, conn, tasks, dispatched, rejected, cbConnected,
                                cbDisconnected, made, lastMessageIndex>>
            [] th.kind = "send" ->
                 /\ SetThreads(p, {th}, {})
                 /\ UNCHANGED <<peers, dataChannels, conn, tasks, dispatched, rejected, cbConnected,
                                cbDisconnected, made, lastMessageIndex, signalingInterval>>
            [] OTHER ->
                 LET t0 == [th EXCEPT !.doc = MarkProcessed(@, Head(th.todo), p),
                                      !.todo = Tail(@), !.sdoc = NoDoc, !.smsg = NoSend]
                     r == pollLoop(LS(p), t0, p, TRUE)
                 IN /\ SetThreads(p, {th}, {r.th})
                    /\ SetLocal(p, [ls |-> r.ls, cursor |-> lastMessageIndex[p]])
                    /\ UNCHANGED signalingInterval
  /\ UNCHANGED <<xferVars, impl, roomId, joinPending, calls>>

H_SendPut(p) == sendSignalingMessage(p, H_MaxMsgs)

\* onicecandidate: sendSignalingMessage starts on its own, beside whatever
\* else is running.
H_IceCandidate(p, q) ==
  /\ impl = "H"
  /\ conn[p][q].local
  /\ ~conn[p][q].ice
  /\ conn[p][q].state # "closed"
  /\ calls.ice < MaxIce
  /\ calls' = [calls EXCEPT !.ice = @ + 1]
  /\ conn' = [conn EXCEPT ![p][q].ice = TRUE]
  /\ threads' = [threads EXCEPT ![p] =
       @ \cup {Thread("send", "sget", NoDoc, <<>>, NoDoc,
                      [type |-> "ice-candidate", to |-> q])}]
  /\ UNCHANGED <<xferVars, impl, store, nextId, roomId, signalingInterval, lastMessageIndex, peers,
                 dataChannels, tasks, joinPending, dispatched, rejected, sent, cbConnected,
                 cbDisconnected, made>>

\* onconnectionstatechange "connected": onPeerConnected; on the answering side
\* the data channel arrives.
H_TransportConnected(p, q) ==
  /\ impl = "H"
  /\ Negotiated(p, q)
  /\ conn[p][q].state = "new"
  /\ conn[q][p].state \in {"new", "connected"}
  /\ conn' = [conn EXCEPT ![p][q].state = "connected"]
  /\ dataChannels' = [dataChannels EXCEPT ![p] = @ \cup {q}]
  /\ cbConnected' = [cbConnected EXCEPT ![p][q] = Bump(@)]
  /\ UNCHANGED <<xferVars, impl, store, nextId, roomId, signalingInterval, lastMessageIndex, peers,
                 tasks, joinPending, threads, dispatched, rejected, sent, cbDisconnected, made, calls>>

\* onconnectionstatechange "disconnected", and later "failed", of a connection
\* whose far end is gone: the map entry is deleted and onPeerDisconnected
\* called; the connection itself is not closed.
H_TransportDown(p, q) ==
  /\ impl = "H"
  /\ \/ conn[p][q].state = "connected" /\ RemoteGone(p, q)
        /\ conn' = [conn EXCEPT ![p][q].state = "disconnected"]
     \/ conn[p][q].state = "disconnected"
        /\ conn' = [conn EXCEPT ![p][q].state = "failed"]
  /\ peers' = [peers EXCEPT ![p] = @ \ {q}]
  /\ dataChannels' = [dataChannels EXCEPT ![p] = @ \ {q}]
  /\ cbDisconnected' = [cbDisconnected EXCEPT ![p][q] = Bump(@)]
  /\ UNCHANGED <<xferVars, made, impl, store, nextId, roomId, signalingInterval, lastMessageIndex, tasks,
                 joinPending, threads, dispatched, rejected, sent, cbConnected, calls>>

\* disconnect: every connection of the map closed, the map cleared, the
\* transfers map cleared, the timer cleared; running calls are not cancelled
\* and no message is sent.
H_Disconnect(p) ==
  /\ impl = "H"
  /\ calls.leave < MaxLeaves
  /\ roomId[p]
  /\ closePeerConnections(p)
  /\ peers' = [peers EXCEPT ![p] = {}]
  /\ dataChannels' = [dataChannels EXCEPT ![p] = {}]
  /\ snd' = IF p = Sender THEN [snd EXCEPT !.rec = FALSE] ELSE snd
  /\ rcv' = IF p = Receiver THEN [rcv EXCEPT !.known = FALSE] ELSE rcv
  /\ signalingInterval' = [signalingInterval EXCEPT ![p] = FALSE]
  /\ calls' = [calls EXCEPT !.leave = @ + 1, !.left[p] = @ + 1]
  /\ UNCHANGED <<csz, file, channel, handed, wire, progress, complete, mx, rl>>
  /\ rejected' = [rejected EXCEPT ![p] = <<>>]
  /\ UNCHANGED <<impl, store, nextId, roomId, lastMessageIndex, tasks, joinPending,
                 threads, dispatched, sent, cbConnected, cbDisconnected, made>>

H_Next ==
  \E p \in H_Peers :
    \/ H_CreateRoom(p)
    \/ H_JoinRoom(p)
    \/ H_JoinSave(p)
    \/ H_Poll(p)
    \/ H_Resume(p)
    \/ H_PollSave(p)
    \/ H_SendGet(p)
    \/ H_SendPut(p)
    \/ H_Disconnect(p)
    \/ \E q \in H_Peers \ {p} :
         \/ H_IceCandidate(p, q)
         \/ H_TransportConnected(p, q)
         \/ H_TransportDown(p, q)

L_Next ==
  \E p \in Peers :
    \/ L_CreateRoom(p)
    \/ L_JoinRoom(p)
    \/ L_JoinRoomResume(p)
    \/ L_Poll(p)
    \/ L_TaskOffer(p)
    \/ L_TaskAnswer(p)
    \/ L_TaskAnswerReject(p)
    \/ L_Disconnect(p)
    \/ \E q \in Peers \ {p} :
         \/ L_IceCandidate(p, q)
         \/ L_TransportConnected(p, q)
         \/ L_TransportDown(p, q)

(***************************************************************************)
(* File transfer over the data channel of an established session, from     *)
(* Sender to Receiver.  The channel is ordered and lossless.  The message  *)
(* kinds are "start" (file-start in webrtc.ts, file-info in part_000),     *)
(* "chunk" (file-chunk) and "end" (file-end, transfer-complete).           *)
(***************************************************************************)
chunkSize == 16384

ScaledChunk == 2    \* chunk size of the scaled-down runs
ByteMax == 1        \* bytes of the scaled-down files are 0..ByteMax
MaxThrows == 1      \* calls of sendFile that raise, at most

Min(a, b) == IF a < b THEN a ELSE b

\* Math.ceil(a / b) for a >= 0, b > 0
Ceil(a, b) == (a + b - 1) \div b

\* A progress value: a number num/den, or NaN.
PV(num, den) == [nan |-> FALSE, num |-> num, den |-> den]

NaN == [nan |-> TRUE, num |-> 0, den |-> 1]

\* Math.round((n / d) * 100): round half up; 0 / 0 is NaN.
MathRound100(n, d) == IF d = 0 THEN NaN ELSE PV((200 * n + d) \div (2 * d), 1)

\* A slice that stops one byte early.
slice_short(f, start, end) == SubSeq(f, start + 1, Min(end, Len(f)) - 1)

\* Blob.slice(start, end): the bytes from start up to end, clamped to the size.
slice(f, start, end) == SubSeq(f, start + 1, Min(end, Len(f)))

RECURSIVE Concat(_)
Concat(chunks) == IF chunks = <<>> THEN <<>> ELSE Head(chunks) \o Concat(Tail(chunks))

\* The sender's side of a transfer: state is the position of sendFile's loop,
\* rec tells whether the transfers map holds the record of the transfer (set
\* with status "transferring" by part_000 only), errors counts the calls of
\* sendFile that raised to their caller before anything was sent, told tells
\* whether the caller learnt that a send failed after the start.
IdleSnd ==
  [state |-> "idle", offset |-> 0, i |-> 0, total |-> 0, errors |-> 0, rec |-> FALSE,
   told |-> FALSE]

NoRcv == [known |-> FALSE, size |-> 0, status |-> "none", chunks |-> <<>>]

\* The room ids a run can draw (uuidv4().substring(0, 9), or typed in by the
\* user who joins).
Rooms == {"r1", "r2"}

\* The services before any call, no room document in the storage.
IdleRooms ==
  [roomId |-> [p \in H_Peers |-> "none"],
   handle |-> [p \in H_Peers |-> FALSE],
   timers |-> [p \in H_Peers |-> 0],
   cursor |-> [p \in H_Peers |-> 0],
   exists |-> [r \in Rooms |-> FALSE],
   log |-> [r \in Rooms |-> <<>>],
   examined |-> [p \in H_Peers |-> {}]]

\* The ids of the two transfers that run at once (uuidv4, generateId).
TransferIds == {"t1", "t2"}

\* No sendFile called yet, nothing received.
IdleMx ==
  [file |-> [t \in TransferIds |-> <<>>],
   st |-> [t \in TransferIds |-> "idle"],
   off |-> [t \in TransferIds |-> 0],
   chan |-> <<>>,
   rf |-> [t \in TransferIds |-> NoRcv],
   out |-> [t \in TransferIds |-> <<>>],
   prog |-> [t \in TransferIds |-> <<>>],
   done |-> [t \in TransferIds |-> 0]]

StartMsg(size) == [kind |-> "start", size |-> size, data |-> <<>>, index |-> 0, total |-> 0]

ChunkMsg(data, index, total) ==
  [kind |-> "chunk", size |-> 0, data |-> data, index |-> index, total |-> total]

EndMsg == [kind |-> "end", size |-> 0, data |-> <<>>, index |-> 0, total |-> 0]

WireRec(m) == [kind |-> m.kind, size |-> m.size, len |-> Len(m.data)]

RECURSIVE WireOf(_)
WireOf(ms) == IF ms = <<>> THEN <<>> ELSE <<WireRec(Head(ms))>> \o WireOf(Tail(ms))

\* The files of a run: with the scaled-down chunk size every byte sequence of
\* length 0, 1, C and C + 1 and patterned ones of length 10 * C; with the
\* chunk size of the source a file of 40000 bytes.
Pattern(n, k) == [i \in 1..n |-> (i + k) % (ByteMax + 1)]

Files(c) ==
  IF c = chunkSize
    THEN {Pattern(40000, 0)}
    ELSE UNION {[1..n -> 0..ByteMax] : n \in {0, 1, c, c + 1}}
           \cup {Pattern(10 * c, k) : k \in 0..ByteMax}

\* The chunk size of the source, and the scaled-down one.
ChunkSizes == {ScaledChunk, chunkSize}

\* A channel that always counts as open.
ChannelOpen_always == TRUE

\* readyState of the data channel is "open": the transport is connected at
\* both ends and the answering side has received the channel.
ChannelOpen ==
  /\ conn[Sender][Receiver].state = "connected"
  /\ conn[Receiver][Sender].state = "connected"
  /\ Sender \in dataChannels[Receiver]

\* dataChannel.send on a channel whose connection was closed throws: the
\* running handler or loop of sendFile ends there.  In part_000 the throw
\* rejects the promise sendFile returned; in webrtc.ts it is thrown inside
\* reader.onload, after sendFile's promise was resolved, and reaches no caller.
SendThrows ==
  /\ snd' = [snd EXCEPT !.state = "aborted", !.told = (impl = "H")]
  /\ UNCHANGED <<channel, wire, progress, complete>>

\* dataChannel.send of the messages ms, in order
Send(ms) ==
  /\ channel' = channel \o ms
  /\ wire' = wire \o WireOf(ms)

\* The guard of sendFile failed: the error is thrown to the caller before
\* anything else is done.
sendFileThrows ==
  /\ snd.errors < MaxThrows
  /\ snd' = [snd EXCEPT !.errors = @ + 1]
  /\ UNCHANGED <<csz, file, channel, wire, complete>>

\* webrtc.ts sendFile up to the first read: without an open channel to the
\* peer it throws; else file-start is sent and the first slice is handed to
\* the FileReader.
L_sendFile ==
  /\ impl = "L"
  /\ snd.state = "idle"
  /\ IF Receiver \in dataChannels[Sender] /\ ChannelOpen
       THEN /\ \E c \in ChunkSizes : \E f \in Files(c) :
                 /\ csz' = c
                 /\ file' = f
                 /\ Send(<<StartMsg(Len(f))>>)
            /\ snd' = [snd EXCEPT !.state = "reading"]
            /\ UNCHANGED complete
       ELSE sendFileThrows
  /\ UNCHANGED <<sigVars, mx, rl, rcv, handed, progress>>

\* reader.onload: the chunk read is sent, the offset advances by its length,
\* progress is reported; then the next slice is read, or file-end is sent and
\* onTransferComplete called.
L_readerOnload ==
  /\ impl = "L"
  /\ snd.state = "reading"
  /\ IF conn[Sender][Receiver].state = "closed"
       THEN SendThrows
       ELSE LET chunk == slice(file, snd.offset, snd.offset + csz)
                offset == snd.offset + Len(chunk)
                more == offset < Len(file)
            IN /\ Send(IF more THEN <<ChunkMsg(chunk, 0, 0)>>
                               ELSE <<ChunkMsg(chunk, 0, 0), EndMsg>>)
               /\ progress' = [progress EXCEPT !.snd =
                                 Append(@, MathRound100(offset, Len(file)))]
               /\ snd' = [snd EXCEPT !.offset = offset,
                                     !.state = IF more THEN "reading" ELSE "done"]
               /\ complete' = [complete EXCEPT !.snd = IF more THEN @ ELSE @ + 1]
  /\ UNCHANGED <<sigVars, mx, rl, csz, file, rcv, handed>>

\* handleFileStart
handleFileStart(r, m) ==
  [r EXCEPT !.known = TRUE, !.size = m.size, !.status = "transferring", !.chunks = <<>>]

\* handleFileChunk: the chunk is pushed; progress from the bytes held so far
handleFileChunk(r, m) == [r EXCEPT !.chunks = Append(@, m.data)]

\* handleFileEnd: the chunks combined in order, the blob stored on the transfer,
\* status completed, the entry removed from receivedFiles.
handleFileEnd(r) == [r EXCEPT !.status = "completed", !.known = FALSE]

\* dataChannel.onmessage of webrtc.ts; a closed connection delivers nothing.
L_onmessage ==
  /\ impl = "L"
  /\ channel # <<>>
  /\ conn[Receiver][Sender].state # "closed"
  /\ channel' = Tail(channel)
  /\ LET m == Head(channel)
     IN CASE m.kind = "start" ->
               /\ rcv' = handleFileStart(rcv, m)
               /\ UNCHANGED <<handed, progress, complete>>
          [] m.kind = "chunk" /\ rcv.known ->
               /\ rcv' = handleFileChunk(rcv, m)
               /\ progress' = [progress EXCEPT !.rcv =
                    Append(@, MathRound100(Len(Concat(handleFileChunk(rcv, m).chunks)),
                                           rcv.size))]
               /\ UNCHANGED <<handed, complete>>
          [] m.kind = "end" /\ rcv.known ->
               /\ rcv' = handleFileEnd(rcv)
               /\ handed' = Concat(rcv.chunks)
               /\ complete' = [complete EXCEPT !.rcv = @ + 1]
               /\ UNCHANGED progress
          [] OTHER -> UNCHANGED <<rcv, handed, progress, complete>>
  /\ UNCHANGED <<sigVars, mx, rl, csz, file, snd, wire>>

\* A loop that sends transfer-complete ahead of the last chunk.
H_sendChunk_endFirst(i, total) ==
  LET start == i * csz
      end == Min(start + csz, Len(file))
      last == i + 1 = total
  IN /\ Send(IF last
               THEN <<EndMsg, ChunkMsg(slice(file, start, end), i, total)>>
               ELSE <<ChunkMsg(slice(file, start, end), i, total)>>)
     /\ progress' = [progress EXCEPT !.snd = Append(@, PV(100 * (i + 1), total))]
     /\ snd' = [snd EXCEPT !.i = i + 1, !.state = IF last THEN "done" ELSE "slicing"]
     /\ complete' = [complete EXCEPT !.snd = IF last THEN @ + 1 ELSE @]

\* The loop of part_000's sendFile from chunk i on, when its slice has been
\* read: the chunk is sent and progress (i + 1) / totalChunks * 100 reported;
\* after the last chunk transfer-complete is sent, the transfer is completed
\* and onTransferComplete called.
H_sendChunk(i, total) ==
  LET start == i * csz
      end == Min(start + csz, Len(file))
      last == i + 1 = total
  IN /\ Send(IF last
               THEN <<ChunkMsg(slice(file, start, end), i, total), EndMsg>>
               ELSE <<ChunkMsg(slice(file, start, end), i, total)>>)
     /\ progress' = [progress EXCEPT !.snd = Append(@, PV(100 * (i + 1), total))]
     /\ snd' = [snd EXCEPT !.i = i + 1, !.state = IF last THEN "done" ELSE "slicing"]
     /\ complete' = [complete EXCEPT !.snd = IF last THEN @ + 1 ELSE @]

\* part_000 sendFile up to its first await: without a peer entry whose channel
\* is open it throws; else file-info is sent and totalChunks computed; a file
\* without chunks is completed in the same run.
H_sendFile ==
  /\ impl = "H"
  /\ snd.state = "idle"
  /\ IF Receiver \in peers[Sender] /\ Receiver \in dataChannels[Sender] /\ ChannelOpen
       THEN \E c \in ChunkSizes : \E f \in Files(c) :
              LET total == Ceil(Len(f), c)
              IN /\ csz' = c
                 /\ file' = f
                 /\ IF total = 0
                      THEN /\ Send(<<StartMsg(Len(f)), EndMsg>>)
                           /\ snd' = [snd EXCEPT !.state = "done", !.total = total,
                                                 !.rec = TRUE]
                           /\ complete' = [complete EXCEPT !.snd = @ + 1]
                      ELSE /\ Send(<<StartMsg(Len(f))>>)
                           /\ snd' = [snd EXCEPT !.state = "slicing", !.total = total,
                                                 !.rec = TRUE]
                           /\ UNCHANGED complete
       ELSE sendFileThrows
  /\ UNCHANGED <<sigVars, mx, rl, rcv, handed, progress>>

\* await file.slice(start, end).arrayBuffer() resolves
H_sendFileLoop ==
  /\ impl = "H"
  /\ snd.state = "slicing"
  /\ IF conn[Sender][Receiver].state = "closed"
       THEN SendThrows
       ELSE H_sendChunk(snd.i, snd.total)
  /\ UNCHANGED <<sigVars, mx, rl, csz, file, rcv, handed>>

\* part_000 handleFileChunk: progress from the chunk's index; nothing is kept of
\* its data; at 100 the transfer is completed and onTransferComplete called.
H_handleFileChunk(m) ==
  /\ progress' = [progress EXCEPT !.rcv = Append(@, PV(100 * (m.index + 1), m.total))]
  /\ IF m.index + 1 >= m.total
       THEN /\ rcv' = [rcv EXCEPT !.status = "completed"]
            /\ complete' = [complete EXCEPT !.rcv = @ + 1]
       ELSE UNCHANGED <<rcv, complete>>

\* part_000 handleDataChannelMessage; a closed connection delivers nothing.
H_handleDataChannelMessage ==
  /\ impl = "H"
  /\ channel # <<>>
  /\ conn[Receiver][Sender].state # "closed"
  /\ channel' = Tail(channel)
  /\ LET m == Head(channel)
     IN CASE m.kind = "start" ->
               /\ rcv' = [rcv EXCEPT !.known = TRUE, !.size = m.size, !.status = "pending"]
               /\ UNCHANGED <<progress, complete>>
          [] m.kind = "chunk" /\ rcv.known -> H_handleFileChunk(m)
          [] m.kind = "end" /\ rcv.known ->
               /\ rcv' = [rcv EXCEPT !.status = "completed"]
               /\ complete' = [complete EXCEPT !.rcv = @ + 1]
               /\ UNCHANGED progress
          [] OTHER -> UNCHANGED <<rcv, progress, complete>>
  /\ UNCHANGED <<sigVars, mx, rl, csz, file, snd, handed, wire>>

Impls == {"L", "H"}

Init ==
  /\ impl \in Impls
  /\ store = EmptyRoom
  /\ nextId = 1
  /\ roomId = [p \in Peers |-> FALSE]
  /\ signalingInterval = [p \in Peers |-> FALSE]
  /\ lastMessageIndex = [p \in Peers |-> 0]
  /\ peers = [p \in Peers |-> {}]
  /\ dataChannels = [p \in Peers |-> {}]
  /\ conn = [p \in Peers |-> [q \in Peers |-> NoConn]]
  /\ tasks = [p \in Peers |-> {}]
  /\ joinPending = [p \in Peers |-> FALSE]
  /\ threads = [p \in Peers |-> {}]
  /\ dispatched = [p \in Peers |-> <<>>]
  /\ rejected = [p \in Peers |-> <<>>]
  /\ sent = {}
  /\ cbConnected = [p \in Peers |-> [q \in Peers |-> 0]]
  /\ cbDisconnected = [p \in Peers |-> [q \in Peers |-> 0]]
  /\ made = [p \in Peers |-> [q \in Peers |-> 0]]
  /\ calls = [join |-> [p \in Peers |-> 0], leave |-> 0, left |-> [p \in Peers |-> 0],
              ice |-> 0, bad |-> 0, pollFail |-> [p \in Peers |-> 0],
              offline |-> [p \in Peers |-> 0], stray |-> 0]
  /\ csz = chunkSize
  /\ file = <<>>
  /\ snd = IdleSnd
  /\ channel = <<>>
  /\ rcv = NoRcv
  /\ handed = <<>>
  /\ wire = <<>>
  /\ progress = [snd |-> <<>>, rcv |-> <<>>]
  /\ complete = [snd |-> 0, rcv |-> 0]
  /\ mx = IdleMx
  /\ rl = IdleRooms

Next == L_Next \/ H_Next

Spec == Init /\ [][Next]_vars

(***************************************************************************)
(* Properties of the signalling relay and the session negotiator           *)
(***************************************************************************)
Ids(ms) == [i \in 1..Len(ms) |-> ms[i].id]

IsPrefix(s, t) == Len(s) <= Len(t) /\ SubSeq(t, 1, Len(s)) = s

FirstAt(s, x) == CHOOSE i \in 1..Len(s) : s[i] = x /\ \A j \in 1..(i - 1) : s[j] # x

\* m is addressed to r or is a broadcast
Addressed(m, r) == m.to \in {r, "none", "broadcast"}

HasDispatched(p, type, q) ==
  \E m \in sent : /\ m.type = type /\ m.from = q /\ Addressed(m, p)
                  /\ Count(dispatched[p], m.id) > 0

HasSent(p, type, q) == \E m \in sent : m.type = type /\ m.from = p /\ m.to = q

\* A handler of p is still on its way to send a message of this type to q.
Pending(p, type, q) ==
  \/ \E t \in tasks[p] : t.kind = type /\ t.peer = q
  \/ \E th \in threads[p] : th.smsg = [type |-> type, to |-> q]

\* C1: a message appended to the room log is dispatched to the handlers of an
\* addressed peer at most once, whatever the polls, disconnects and re-joins.
C1_AtMostOnce ==
  \A p \in Peers : \A m \in sent : Count(dispatched[p], m.id) <= 1

\* C2: no append is lost: every step leaves the earlier log as a prefix of the
\* later log (the messages are compared by their ids).
C2_LogOnlyGrows ==
  [][IsPrefix(Ids(store.messages), Ids(store'.messages))]_vars

C4_NoGlare ==
  \A p, q \in Peers : p # q => ~(HasSent(p, "offer", q) /\ HasSent(q, "offer", p))

\* C5: two messages of one sender addressed to a peer (or broadcast) are
\* dispatched at that peer in the order they were appended: the later one is not
\* dispatched unless the earlier one was dispatched before it.
C5_SenderOrder ==
  \A r \in Peers : \A m1, m2 \in sent :
    ( /\ m1.from = m2.from /\ m1.from # r /\ m1.id < m2.id
      /\ Addressed(m1, r) /\ Addressed(m2, r)
      /\ Count(dispatched[r], m2.id) > 0 )
    => /\ Count(dispatched[r], m1.id) > 0
       /\ FirstAt(dispatched[r], m1.id) < FirstAt(dispatched[r], m2.id)

\* C10: a peer that had one session for another calls onPeerDisconnected for it
\* at most once, whatever transport events and leave messages follow.
C10_DisconnectOnce ==
  \A p, q \in Peers : made[p][q] = 1 => cbDisconnected[p][q] <= 1

(***************************************************************************)
(* The two-peer handshake: the creator creates the room, then "B" joins    *)
(* it; nobody disconnects.  Timers keep firing and awaited calls resolve,  *)
(* so every process keeps taking the steps it can take.                    *)
(***************************************************************************)
Joiner == "B"

HS_CreateRoom == L_CreateRoom(Creator) \/ H_CreateRoom(Creator)

HS_JoinRoom == roomId[Creator] /\ (L_JoinRoom(Joiner) \/ H_JoinRoom(Joiner))

HS_Relay(p) ==
  \/ L_JoinRoomResume(p)
  \/ L_Poll(p)
  \/ H_JoinSave(p)
  \/ H_Poll(p)
  \/ H_PollSave(p)

HS_Negotiate(p) ==
  \/ L_TaskOffer(p)
  \/ L_TaskAnswer(p)
  \/ H_Resume(p)
  \/ H_SendGet(p)
  \/ H_SendPut(p)

HS_Transport(p) ==
  \E q \in {Creator, Joiner} \ {p} :
    L_TransportConnected(p, q) \/ H_TransportConnected(p, q)

\* A candidate may be reported at any time after the local description is set;
\* nothing obliges the transport to report one.
HS_Ice(p) ==
  \E q \in {Creator, Joiner} \ {p} :
    L_IceCandidate(p, q) \/ H_IceCandidate(p, q)

HS_Next ==
  \/ HS_CreateRoom
  \/ HS_JoinRoom
  \/ \E p \in {Creator, Joiner} : HS_Relay(p)
  \/ \E p \in {Creator, Joiner} : HS_Negotiate(p)
  \/ \E p \in {Creator, Joiner} : HS_Transport(p)
  \/ \E p \in {Creator, Joiner} : HS_Ice(p)

HS_Fairness ==
  /\ WF_vars(HS_CreateRoom)
  /\ WF_vars(HS_JoinRoom)
  /\ \A p \in {Creator, Joiner} :
       WF_vars(HS_Relay(p)) /\ WF_vars(HS_Negotiate(p)) /\ WF_vars(HS_Transport(p))

SpecHandshake == Init /\ [][HS_Next]_vars /\ HS_Fairness

HandshakeDone ==
  /\ HasSent(Creator, "offer", Joiner)
  /\ HasSent(Joiner, "answer", Creator)
  /\ Joiner \in peers[Creator] /\ conn[Creator][Joiner].state = "connected"
  /\ Creator \in peers[Joiner] /\ conn[Joiner][Creator].state = "connected"

\* The run has used up the messages or dispatches the model allows.
HS_OutOfBudget ==
  \/ nextId > (IF impl = "L" THEN MaxMsgs ELSE H_MaxMsgs)
  \/ \E p \in Peers : Len(dispatched[p]) >= MaxDispatch

\* C6: once the creator has created the room and the joiner has joined it, and
\* both keep polling, the creator's offer and the joiner's answer are eventually
\* sent and both transports become connected (in every run that stays within
\* the budget of the model).
C6_HandshakeCompletes ==
  (roomId[Creator] /\ roomId[Joiner]) ~> (HandshakeDone \/ HS_OutOfBudget)

(***************************************************************************)
(* One file sent from Sender to Receiver once the two-peer handshake has   *)
(* opened the data channel.                                                *)
(***************************************************************************)
T_Next ==
  \/ HS_Next
  \/ L_sendFile
  \/ L_readerOnload
  \/ L_onmessage
  \/ H_sendFile
  \/ H_sendFileLoop
  \/ H_handleDataChannelMessage

SpecTransfer == Init /\ [][T_Next]_vars

(***************************************************************************)
(* Properties of the transfer engine                                       *)
(***************************************************************************)
Delivered == snd.state = "done" /\ channel = <<>>

\* C7: at completion the bytes handed to the receiver are the bytes of the
\* sender's file, in content and in length.
C7_RoundTrip == complete.rcv > 0 => handed = file

\* The messages sendFile is to emit for a file of s > 0 bytes with chunk size c.
ExpectedWire(s, c) ==
  <<[kind |-> "start", size |-> s, len |-> 0]>>
    \o [k \in 1..Ceil(s, c) |->
          [kind |-> "chunk", size |-> 0,
           len |-> IF k < Ceil(s, c) THEN c ELSE s - (Ceil(s, c) - 1) * c]]
    \o <<[kind |-> "end", size |-> 0, len |-> 0]>>

\* C8: a file of S > 0 bytes is sent as one start message carrying S, then
\* ceil(S/C) chunk messages (all of C bytes but the last, which carries the
\* rest), then one end message: what has been sent so far is a prefix of that
\* sequence and, when sendFile is done, all of it; 40000 bytes with chunks of
\* 16384 go out as chunks of 16384, 16384 and 7232 bytes; the sender is then
\* completed, and the receiver once the messages are delivered.
C8_Chunking ==
  (snd.state # "idle" /\ Len(file) > 0) =>
    /\ IsPrefix(wire, ExpectedWire(Len(file), csz))
    /\ snd.state = "done" =>
         /\ wire = ExpectedWire(Len(file), csz)
         /\ complete.snd = 1
    /\ (snd.state = "done" /\ Len(file) = 40000 /\ csz = 16384) =>
         [i \in 1..3 |-> wire[i + 1].len] = <<16384, 16384, 7232>> /\ Len(wire) = 5
    /\ Delivered => rcv.status = "completed"

\* The 40000-byte file has been sent in three chunks and delivered.
C8_Witness ==
  /\ Len(file) = 40000 /\ csz = 16384
  /\ Delivered
  /\ Len(wire) = 5 /\ wire[4].len = 7232
  /\ rcv.status = "completed" /\ complete.snd = 1

PLeq(a, b) == ~a.nan /\ ~b.nan /\ a.num * b.den <= b.num * a.den

NonDecreasing(ps) == \A i \in 1..(Len(ps) - 1) : PLeq(ps[i], ps[i + 1])

EndsAt100(ps) ==
  /\ ps # <<>>
  /\ ~ps[Len(ps)].nan
  /\ ps[Len(ps)].num = 100 * ps[Len(ps)].den

\* C9: on the sender and on the receiver the progress values reported for the
\* transfer never decrease, and when the completion is notified the last value
\* reported is exactly 100, whatever the size of the file.
C9_Progress ==
  /\ NonDecreasing(progress.snd)
  /\ NonDecreasing(progress.rcv)
  /\ complete.snd > 0 => EndsAt100(progress.snd)
  /\ complete.rcv > 0 => EndsAt100(progress.rcv)

\* ---------------------------------------------------------------------------
\* Roster.

SendReady ==
  /\ Receiver \in dataChannels[Sender]
  /\ impl = "H" => Receiver \in peers[Sender]
  /\ conn[Sender][Receiver].state = "connected"
  /\ conn[Receiver][Sender].state = "connected"
  /\ Sender \in dataChannels[Receiver]

\* C12: a call of sendFile for a peer without an open data channel raises an
\* error and does nothing else: no message goes onto a channel, no transfer is
\* started, no progress or completion callback is made; and a call starts a
\* transfer only when the channel is open.
C12_FailFast ==
  [][/\ snd.state = "idle" /\ ~SendReady
          => /\ wire' = wire /\ channel' = channel
             /\ snd'.state = "idle"
             /\ progress' = progress /\ complete' = complete
             /\ file' = file
     /\ snd'.errors # snd.errors
          => /\ snd.state = "idle" /\ ~SendReady
             /\ snd'.errors = snd.errors + 1]_vars

\* sendFile was called for a peer whose session exists but whose channel is
\* not open; it raised and left nothing behind.
C12_Witness ==
  /\ snd.errors > 0
  /\ Receiver \in dataChannels[Sender]
  /\ conn[Sender][Receiver].state # "connected"
  /\ snd.state = "idle"
  /\ wire = <<>>

\* ---------------------------------------------------------------------------
\* Files of size 0 and the range of progress values.

\* A progress value that is a number from 0 to 100.
InRange(v) == ~v.nan /\ 0 <= v.num /\ v.num <= 100 * v.den

WireKinds == [i \in 1..Len(wire) |-> wire[i].kind]

\* C13: when a file of size 0 has been sent, the channel has carried file-start
\* immediately followed by file-end, with no file-chunk in between, and every
\* progress value reported to the sender is a number from 0 to 100.
C13_EmptyFile ==
  (snd.state = "done" /\ Len(file) = 0)
    => /\ WireKinds = <<"start", "end">>
       /\ \A i \in 1..Len(progress.snd) : InRange(progress.snd[i])

\* C20: every progress value reported, to the sender or to the receiver, is a
\* number from 0 to 100, whatever the size of the file.
C20_ProgressRange ==
  /\ \A i \in 1..Len(progress.snd) : InRange(progress.snd[i])
  /\ \A i \in 1..Len(progress.rcv) : InRange(progress.rcv[i])

\* ---------------------------------------------------------------------------
\* Transfers whose session is closed.

\* A session ends while a transfer may be running: disconnect at either end,
\* or the connection state change that follows it at the other.
X_Close(p) ==
  \/ L_Disconnect(p)
  \/ H_Disconnect(p)
  \/ \E q \in {Creator, Joiner} \ {p} : L_TransportDown(p, q) \/ H_TransportDown(p, q)

\* The handshake without candidates, the transfer, and the closing of sessions.
X_Next ==
  \/ HS_CreateRoom
  \/ HS_JoinRoom
  \/ \E p \in {Creator, Joiner} : HS_Relay(p) \/ HS_Negotiate(p) \/ HS_Transport(p)
  \/ L_sendFile \/ L_readerOnload \/ L_onmessage
  \/ H_sendFile \/ H_sendFileLoop \/ H_handleDataChannelMessage
  \/ \E p \in {Creator, Joiner} : X_Close(p)

SpecCancel == Init /\ [][X_Next]_vars

\* C14: a transfer is in status "transferring" only while its session is in
\* the session map: when the session is closed, the receiver's record and the
\* sender's record of a running transfer leave that status.
C14_CancelOnClose ==
  /\ (rcv.known /\ rcv.status = "transferring") => Sender \in peers[Receiver]
  /\ (snd.rec /\ snd.state = "slicing") => Receiver \in peers[Sender]

\* ---------------------------------------------------------------------------
\* Teardown.

\* C15: when a call of disconnect returns, the caller's poll timer is
\* cancelled, every connection that was in its session map has been closed,
\* and its session map and data-channel map are empty.
C15_Teardown ==
  [][\A p \in Peers :
       calls'.left[p] > calls.left[p]
         => /\ ~signalingInterval'[p]
            /\ \A q \in peers[p] : conn'[p][q].state = "closed"
            /\ peers'[p] = {}
            /\ dataChannels'[p] = {}]_vars

\* A peer with a session has called disconnect: the session's connection is
\* closed without a disconnect callback having been made for it.
C15_Witness ==
  \E p \in Peers : \E q \in Peers \ {p} :
    /\ calls.left[p] > 0
    /\ made[p][q] > 0
    /\ cbDisconnected[p][q] = 0
    /\ conn[p][q].state = "closed"
    /\ peers[p] = {} /\ dataChannels[p] = {}
    /\ ~signalingInterval[p]

(***************************************************************************)
(* Faults: a malformed answer in the log, polls whose read of the store    *)
(* fails, createRoom and joinRoom while every store operation fails.       *)
(***************************************************************************)

\* A client q of the room writes an answer for p whose payload no connection
\* accepts (the payload of a message is not validated by the store).
F_Malformed(q, p) ==
  /\ roomId[q]
  /\ store.exists
  /\ calls.bad < MaxBad
  /\ nextId <= (IF impl = "L" THEN MaxMsgs ELSE H_MaxMsgs)
  /\ store' = [store EXCEPT !.messages = Append(@, Msg(nextId, "bad-answer", q, p))]
  /\ sent' = sent \cup {SentRec(Msg(nextId, "bad-answer", q, p))}
  /\ nextId' = nextId + 1
  /\ calls' = [calls EXCEPT !.bad = @ + 1]
  /\ UNCHANGED <<xferVars, impl, roomId, signalingInterval, lastMessageIndex, peers, dataChannels,
                 conn, tasks, joinPending, threads, dispatched, rejected, cbConnected,
                 cbDisconnected, made>>

\* A poll that stops the timer when its read fails.
pollFailed_stops(p) ==
  /\ signalingInterval' = [signalingInterval EXCEPT ![p] = FALSE]
  /\ UNCHANGED <<lastMessageIndex, threads>>

\* What a poll leaves behind when its read of the store fails: the catch block
\* (webrtc.ts) or the null result of getRoomData (part_000) ends it.
pollFailed(p) == UNCHANGED <<signalingInterval, lastMessageIndex, threads>>

\* The timer fires and localStorage.getItem or JSON.parse throws.
L_PollFail(p) ==
  /\ impl = "L"
  /\ signalingInterval[p]
  /\ ~joinPending[p]
  /\ calls.pollFail[p] < MaxPollFails
  /\ calls' = [calls EXCEPT !.pollFail[p] = @ + 1]
  /\ pollFailed(p)
  /\ UNCHANGED <<xferVars, impl, store, nextId, roomId, peers, dataChannels, conn, tasks,
                 joinPending, dispatched, rejected, sent, cbConnected, cbDisconnected, made>>

\* The timer fires and the fetch of getRoomData fails or answers not ok.
H_PollFail(p) ==
  /\ impl = "H"
  /\ signalingInterval[p]
  /\ calls.pollFail[p] < MaxPollFails
  /\ calls' = [calls EXCEPT !.pollFail[p] = @ + 1]
  /\ pollFailed(p)
  /\ UNCHANGED <<xferVars, impl, store, nextId, roomId, peers, dataChannels, conn, tasks,
                 joinPending, dispatched, rejected, sent, cbConnected, cbDisconnected, made>>

\* createRoom while every store operation fails: setItem throws and is caught,
\* startSignaling sets the timer, the initial poll fails, the id is returned.
L_CreateRoomOffline(p) ==
  /\ impl = "L"
  /\ p = Creator
  /\ ~store.exists
  /\ ~roomId[p]
  /\ calls.offline[p] < MaxOffline
  /\ roomId' = [roomId EXCEPT ![p] = TRUE]
  /\ signalingInterval' = [signalingInterval EXCEPT ![p] = TRUE]
  /\ calls' = [calls EXCEPT !.offline[p] = @ + 1]
  /\ UNCHANGED <<xferVars, impl, store, nextId, lastMessageIndex, peers, dataChannels, conn,
                 tasks, joinPending, threads, dispatched, rejected, sent, cbConnected,
                 cbDisconnected, made>>

\* joinRoom while every store operation fails: the roster update throws and is
\* caught, sendSignalMessage catches its own failure, startSignaling sets the
\* timer, the initial poll fails.
L_JoinRoomOffline(p) ==
  /\ impl = "L"
  /\ calls.join[p] < MaxJoins
  /\ ~joinPending[p]
  /\ calls.offline[p] < MaxOffline
  /\ roomId' = [roomId EXCEPT ![p] = TRUE]
  /\ signalingInterval' = [signalingInterval EXCEPT ![p] = TRUE]
  /\ calls' = [calls EXCEPT !.join[p] = @ + 1, !.offline[p] = @ + 1]
  /\ UNCHANGED <<xferVars, impl, store, nextId, lastMessageIndex, peers, dataChannels, conn,
                 tasks, joinPending, threads, dispatched, rejected, sent, cbConnected,
                 cbDisconnected, made>>

\* part_000 createRoom while every fetch fails: saveRoomData swallows the
\* failure, startSignalingPolling runs, the id is returned.
H_CreateRoomOffline(p) ==
  /\ impl = "H"
  /\ p = Creator
  /\ ~store.exists
  /\ ~roomId[p]
  /\ calls.offline[p] < MaxOffline
  /\ roomId' = [roomId EXCEPT ![p] = TRUE]
  /\ startSignalingPolling(p)
  /\ calls' = [calls EXCEPT !.offline[p] = @ + 1]
  /\ UNCHANGED <<xferVars, impl, store, nextId, lastMessageIndex, peers, dataChannels, conn,
                 tasks, joinPending, threads, dispatched, rejected, sent, cbConnected,
                 cbDisconnected, made>>

\* part_000 joinRoom while every fetch fails: getRoomData returns null, nothing
\* is written or sent, startSignalingPolling runs.
H_JoinRoomOffline(p) ==
  /\ impl = "H"
  /\ calls.join[p] < MaxJoins
  /\ ~\E th \in threads[p] : th.kind = "join"
  /\ calls.offline[p] < MaxOffline
  /\ roomId' = [roomId EXCEPT ![p] = TRUE]
  /\ startSignalingPolling(p)
  /\ calls' = [calls EXCEPT !.join[p] = @ + 1, !.offline[p] = @ + 1]
  /\ UNCHANGED <<xferVars, impl, store, nextId, lastMessageIndex, peers, dataChannels, conn,
                 tasks, joinPending, threads, dispatched, rejected, sent, cbConnected,
                 cbDisconnected, made>>

F_Fault(p) ==
  \/ \E q \in {Creator, Joiner} \ {p} : F_Malformed(q, p)
  \/ L_PollFail(p) \/ H_PollFail(p)
  \/ L_CreateRoomOffline(p) \/ H_CreateRoomOffline(p)
  \/ L_JoinRoomOffline(p) \/ H_JoinRoomOffline(p)

\* The handshake of two peers with the faults.
F_Next == HS_Next \/ \E p \in {Creator, Joiner} : F_Fault(p)

SpecFaults == Init /\ [][F_Next]_vars

\* ---------------------------------------------------------------------------
\* Failing negotiation handlers.

\* The ids of the messages the next poll of p would dispatch: those from the
\* cursor on (webrtc.ts), those that pass the filter (part_000).
NextBatch(p) ==
  IF impl = "L"
    THEN LET ms == SubSeqFrom(store.messages, lastMessageIndex[p])
         IN {ms[i].id : i \in {j \in 1..Len(ms) : ms[j].from # p}}
    ELSE LET ids == Unread(store.messages, p)
         IN {ids[i] : i \in 1..Len(ids)}

\* C16: the relay goes past an offer or answer whose handler rejected: once
\* the poll that dispatched it is over, the next poll of that peer does not
\* dispatch the failed message again.
C16_ErrorIsolation ==
  \A p \in Peers :
    (signalingInterval[p] /\ PollThreads(p) = {})
      => \A i \in 1..Len(rejected[p]) :
           rejected[p][i].type \in {"offer", "answer"}
             => rejected[p][i].id \notin NextBatch(p)

\* ---------------------------------------------------------------------------
\* Store failures.

\* C17: a poll whose read of the store fails lets no exception out and changes
\* nothing: the timer stays set, the cursor and the marks stay as they were,
\* nothing is dispatched, and the messages the next poll will dispatch are the
\* ones that were pending before.
C17_PollFailureHarmless ==
  [][\A p \in Peers :
       calls'.pollFail[p] > calls.pollFail[p]
         => /\ signalingInterval'[p]
            /\ lastMessageIndex' = lastMessageIndex
            /\ store' = store
            /\ dispatched' = dispatched
            /\ NextBatch(p)' = NextBatch(p)]_vars

\* A poll of a peer failed while a message was waiting for it; the message is
\* still waiting and the timer is set.
C17_Witness ==
  \E p \in Peers :
    /\ calls.pollFail[p] > 0
    /\ signalingInterval[p]
    /\ dispatched[p] = <<>>
    /\ NextBatch(p) # {}

\* C18: createRoom and joinRoom made while every store operation fails return
\* normally: the room id is set, the poll timer is running afterwards, and
\* nothing was written.
C18_Degradation ==
  [][\A p \in Peers :
       calls'.offline[p] > calls.offline[p]
         => /\ roomId'[p]
            /\ signalingInterval'[p]
            /\ store' = store /\ sent' = sent]_vars

\* The creator created and the joiner joined with the store down: both are in
\* the room with their timers set and there is no room document.
C18_Witness ==
  /\ calls.offline[Creator] > 0 /\ calls.offline[Joiner] > 0
  /\ roomId[Creator] /\ roomId[Joiner]
  /\ signalingInterval[Creator] /\ signalingInterval[Joiner]
  /\ ~store.exists

\* ---------------------------------------------------------------------------
\* Delivery.

\* C19: while both peers keep polling, every message that was sent to a peer,
\* or to all, is eventually dispatched at that peer (or the run has used up
\* its budget of messages and dispatches).
C19_Delivery ==
  \A id \in 1..MaxMsgs : \A p \in {Creator, Joiner} :
    (\E m \in sent : m.id = id /\ m.from # p /\ Addressed(m, p))
      ~> (Count(dispatched[p], id) > 0 \/ HS_OutOfBudget)

\* ---------------------------------------------------------------------------
\* A send that fails in the middle of a transfer.

\* C21: when the loop of sendFile has ended, either every chunk was sent and
\* completion reported, or the transfer is marked failed and the caller was
\* told; completion is reported only for a transfer that was sent whole.
C21_SendFailureSignalled ==
  /\ snd.state \notin {"idle", "reading", "slicing", "done"}
       => snd.state = "failed" /\ snd.told
  /\ complete.snd > 0 => snd.state = "done"

\* ---------------------------------------------------------------------------
\* Selection of messages by the relay.

\* p dispatched a message of one of these types that q sent to p or to all.
ActedOn(p, q, types) ==
  \E m \in sent : /\ m.from = q /\ m.type \in types /\ Addressed(m, p)
                  /\ Count(dispatched[p], m.id) > 0

\* C22: the relay of a peer dispatches no message the peer sent itself, and
\* only messages addressed to the peer or to all change its state: a session
\* for q was created by a join or an offer of q that p was addressed by, and a
\* remote description was applied from such an offer or answer.
C22_RelaySelection ==
  \A p \in Peers :
    /\ \A m \in sent : Count(dispatched[p], m.id) > 0 => m.from # p
    /\ \A q \in Peers \ {p} :
         /\ made[p][q] > 0 => ActedOn(p, q, {"join", "offer"})
         /\ conn[p][q].remote => ActedOn(p, q, {"offer", "answer"})

\* The relay of a peer has come across an offer, answer or candidate that
\* names another peer, and the peer holds no remote description from its sender.
C22_Witness ==
  \E p \in Peers : \E m \in sent :
    /\ m.type \in {"offer", "answer", "ice-candidate"}
    /\ m.from # p /\ ~Addressed(m, p)
    /\ Count(dispatched[p], m.id) > 0
    /\ ~conn[p][m.from].remote

\* ---------------------------------------------------------------------------
\* Handlers of one remote peer running at the same time.

\* The sender of the message with this id.
FromOf(id) == (CHOOSE m \in sent : m.id = id).from

\* The messages of q that p's relay dispatches in this step.
NewFrom(p, q) ==
  {i \in (Len(dispatched[p]) + 1)..Len(dispatched'[p]) : FromOf(dispatched'[p][i]) = q}

\* A handler of p for a message of q is suspended at an await before and after
\* this step.
Suspended(p, q) ==
  \/ \E t \in tasks[p] \cap tasks'[p] : t.peer = q
  \/ \E th \in threads[p] \cap threads'[p] :
       /\ th.kind = "poll" /\ th.pc \in {"sget", "sput", "resume"}
       /\ FromOf(Head(th.todo)) = q

\* C23: the handler of a message from q does not start at p while the handler
\* of an earlier message from q is suspended at an await: not in a later poll,
\* and not later in the batch that started the suspended handler.
C23_Serialized ==
  [][\A p \in Peers : \A q \in Peers \ {p} :
       /\ Suspended(p, q) => NewFrom(p, q) = {}
       /\ \A t \in tasks'[p] \ tasks[p] :
            t.peer = q => \A i \in NewFrom(p, q) :
                            \E j \in NewFrom(p, q) : j >= i /\ dispatched'[p][j] = t.id]_vars

\* ---------------------------------------------------------------------------
\* Candidates and the remote description.

\* C24: a candidate of q that p dispatches while it has a session for q is
\* never handed to a transport that has no remote description yet (it would
\* have to be buffered), also when the offer and the candidate come in one
\* batch.
C24_CandidateTolerance ==
  \A p \in Peers : \A i \in 1..Len(rejected[p]) :
    rejected[p][i].type # "ice-candidate"

\* ---------------------------------------------------------------------------
\* The peer-connected notification.

\* C25: onPeerConnected(q) is called at p only in a step in which p's transport
\* for q reports "connected", not on the receipt of q's join or offer, and at
\* most once for each session p creates for q.
C25_ConnectedNotification ==
  [][\A p \in Peers : \A q \in Peers \ {p} :
       /\ cbConnected'[p][q] > cbConnected[p][q]
            => conn[p][q].state # "connected" /\ conn'[p][q].state = "connected"
       /\ cbConnected'[p][q] <= made'[p][q]]_vars

\* ---------------------------------------------------------------------------
\* Offers and answers.

G_MaxMsgs == 4      \* messages ever written to the room log in the runs below

\* Joining and negotiating only: nobody leaves, no candidates, no transport
\* events; both peers may join the room.
G_Next ==
  \E p \in H_Peers :
    \/ L_CreateRoom(p)
    \/ L_JoinRoom(p)
    \/ L_JoinRoomResume(p)
    \/ L_Poll(p)
    \/ L_TaskOffer(p)
    \/ L_TaskAnswer(p)
    \/ L_TaskAnswerReject(p)
    \/ H_CreateRoom(p)
    \/ H_JoinRoom(p)
    \/ H_JoinSave(p)
    \/ H_Poll(p)
    \/ H_Resume(p)
    \/ H_PollSave(p)
    \/ H_SendGet(p)
    \/ sendSignalingMessage(p, G_MaxMsgs)

SpecGlare == Init /\ [][G_Next]_vars

\* The answers p has appended for q.
AnswersTo(p, q) ==
  Cardinality({m \in sent : m.type = "answer" /\ m.from = p /\ m.to = q})

\* The dispatches at p of an offer of q.
OffersFrom(p, q) ==
  Cardinality({i \in 1..Len(dispatched[p]) :
                 \E m \in sent : /\ m.id = dispatched[p][i] /\ m.type = "offer"
                                  /\ m.from = q /\ Addressed(m, p)})

\* C26: an offer of q creates a session at p, with p as answerer, only if p
\* has none for q when the offer is handled (an existing session is reused),
\* and p never has appended more answers to q than it has dispatched offers
\* of q.
C26_OfferHandling ==
  [][\A p \in Peers : \A q \in Peers \ {p} :
       /\ (made'[p][q] > made[p][q] /\ conn'[p][q].role = "answerer")
            => \/ q \notin peers[p]
               \/ \E i \in NewFrom(p, q) : \E m \in sent :
                    m.id = dispatched'[p][i] /\ m.type = "leave"
       /\ AnswersTo(p, q)' <= OffersFrom(p, q)']_vars

\* The type of the message with this id.
TypeOf(id) == (CHOOSE m \in sent : m.id = id).type

\* The messages of q that p dispatches in this step are answers and leaves,
\* with an answer among them.
OnlyAnswers(p, q) ==
  /\ \E i \in NewFrom(p, q) : TypeOf(dispatched'[p][i]) = "answer"
  /\ \A i \in NewFrom(p, q) : TypeOf(dispatched'[p][i]) \in {"answer", "leave"}

\* In this step p has no session for q in which it is the offerer when it
\* comes to an answer of q: it had none before the step, or a leave of q
\* comes before every answer.
NotOfferer(p, q) ==
  \/ q \notin peers[p]
  \/ conn[p][q].role # "initiator"
  \/ \E i \in NewFrom(p, q) :
       /\ TypeOf(dispatched'[p][i]) = "leave"
       /\ \A j \in NewFrom(p, q) : TypeOf(dispatched'[p][j]) = "answer" => i < j

C28_LeavePropagation ==
  \A p \in Peers :
    calls.left[p] > 0 => \E m \in sent : m.type = "leave" /\ m.from = p

\* ---------------------------------------------------------------------------
\* Sessions that were removed.

\* onconnectionstatechange "disconnected" while the far end is still there (the
\* network path is lost for a while).  webrtc.ts: handlePeerLeave closes the
\* connection.  part_000: the map entry is deleted, the connection stays open.
L_TransportLost(p, q) ==
  /\ impl = "L"
  /\ q \in peers[p]
  /\ conn[p][q].state = "connected"
  /\ LET ls == handlePeerLeave(LS(p), q)
     IN SetLocal(p, [ls |-> ls, cursor |-> lastMessageIndex[p]])
  /\ UNCHANGED <<xferVars, impl, store, nextId, roomId, signalingInterval, joinPending, threads,
                 sent, calls>>

H_TransportLost(p, q) ==
  /\ impl = "H"
  /\ conn[p][q].state = "connected"
  /\ conn' = [conn EXCEPT ![p][q].state = "disconnected"]
  /\ peers' = [peers EXCEPT ![p] = @ \ {q}]
  /\ dataChannels' = [dataChannels EXCEPT ![p] = @ \ {q}]
  /\ cbDisconnected' = [cbDisconnected EXCEPT ![p][q] = Bump(@)]
  /\ UNCHANGED <<xferVars, made, impl, store, nextId, roomId, signalingInterval, lastMessageIndex, tasks,
                 joinPending, threads, dispatched, rejected, sent, cbConnected, calls>>

\* onconnectionstatechange "connected" of a connection that was "disconnected"
\* and is open at both ends: the path is back.  The handler of part_000 calls
\* onPeerConnected; a connection webrtc.ts closed reports nothing any more.
H_TransportRecovered(p, q) ==
  /\ impl = "H"
  /\ conn[p][q].state = "disconnected"
  /\ conn[q][p].state \in {"connected", "disconnected"}
  /\ conn' = [conn EXCEPT ![p][q].state = "connected"]
  /\ cbConnected' = [cbConnected EXCEPT ![p][q] = Bump(@)]
  /\ UNCHANGED <<xferVars, impl, store, nextId, roomId, signalingInterval, lastMessageIndex, peers,
                 dataChannels, tasks, joinPending, threads, dispatched, rejected, sent,
                 cbDisconnected, made, calls>>

R_Next ==
  \/ HS_Next
  \/ \E p \in {Creator, Joiner} : \E q \in {Creator, Joiner} \ {p} :
       \/ L_TransportLost(p, q)
       \/ H_TransportLost(p, q)
       \/ H_TransportRecovered(p, q)

SpecRecover == Init /\ [][R_Next]_vars

\* C29: once p's session for q has been removed, nothing but a join or an
\* offer of q gives p a session for q again, and onPeerConnected(q) is not
\* called: not by a later answer or candidate of q, not by a late event of the
\* transport.
C29_NoResurrection ==
  [][\A p \in Peers : \A q \in Peers \ {p} :
       (/\ made[p][q] > 0 /\ q \notin peers[p]
        /\ \A i \in NewFrom(p, q) : TypeOf(dispatched'[p][i]) \notin {"join", "offer"})
         => /\ q \notin peers'[p]
            /\ made'[p][q] = made[p][q]
            /\ cbConnected'[p][q] = cbConnected[p][q]]_vars

\* ---------------------------------------------------------------------------
\* Processed marks.

\* C30: a mark that is in the stored document stays there: if p is in the
\* processedBy list of a stored message, every later state of the store holds
\* that message with p in its list.
C30_MarksKept ==
  [][\A i \in 1..Len(store.messages) : \A p \in store.messages[i].pb :
       \E j \in 1..Len(store'.messages) :
         /\ store'.messages[j].id = store.messages[i].id
         /\ p \in store'.messages[j].pb]_vars

\* ---------------------------------------------------------------------------
\* The receiving side of a transfer.

\* The receiver handles a message of this kind in this step.
Handles(kind) ==
  /\ channel # <<>>
  /\ channel' = Tail(channel)
  /\ Head(channel).kind = kind

\* C31: on a start message the receiver makes the record of the transfer:
\* status "transferring", the announced size, nothing accumulated yet.
C31_ReceiveStart ==
  [][Handles("start")
       => /\ rcv'.known
          /\ rcv'.status = "transferring"
          /\ rcv'.size = Head(channel).size
          /\ rcv'.chunks = <<>>]_vars

\* C32: the receiver's transfer becomes "completed" only in the step that
\* handles the end message, never on a chunk, and onTransferComplete is called
\* at most once for the transfer, in that step.
C32_ReceiveCompletion ==
  [][/\ (rcv'.status = "completed" /\ rcv.status # "completed") => Handles("end")
     /\ complete'.rcv > complete.rcv => Handles("end")
     /\ complete'.rcv <= 1]_vars

\* ---------------------------------------------------------------------------
\* The order of the messages of one transfer.

\* The bytes of the chunks sent so far.
RECURSIVE ChunkBytes(_)
ChunkBytes(w) ==
  IF w = <<>> THEN 0
  ELSE (IF Head(w).kind = "chunk" THEN Head(w).len ELSE 0) + ChunkBytes(Tail(w))

\* The messages put on the channel in this step.
Put == SubSeq(channel', Len(channel') - (Len(wire') - Len(wire)) + 1, Len(channel'))

\* C33: the sender puts on the channel the start message first, then chunks,
\* each holding the bytes of the file that follow those already sent, then the
\* end message; nothing follows the end message.
C33_SendOrder ==
  [][Len(wire') > Len(wire)
       => /\ wire'[1].kind = "start"
          /\ \A i \in 2..Len(wire') : wire'[i].kind \in {"chunk", "end"}
          /\ \A i \in 1..(Len(wire') - 1) : wire'[i].kind # "end"
          /\ \A k \in 1..Len(Put) :
               Put[k].kind = "chunk"
                 => Put[k].data = SubSeq(file', ChunkBytes(wire) + 1,
                                         ChunkBytes(wire) + Len(Put[k].data))]_vars

C33_Witness ==
  /\ Len(wire) >= 4
  /\ wire[Len(wire)].kind = "end"
  /\ wire[2].kind = "chunk" /\ wire[3].kind = "chunk"

(***************************************************************************)
(* Two calls of sendFile to the same peer running at once: each has its    *)
(* own transfer id, its own file and its own position; their messages      *)
(* share the one data channel.                                             *)
(***************************************************************************)

\* The files of these runs: every byte sequence of one byte and of one chunk
\* and a byte.
M_Files == UNION {[1..n -> 0..ByteMax] : n \in {1, ScaledChunk + 1}}

M_Put(t, ms) == mx.chan \o [k \in 1..Len(ms) |-> [id |-> t, m |-> ms[k]]]

M_Others == <<sigVars, csz, file, snd, channel, rcv, handed, wire, progress, complete, rl>>

\* webrtc.ts sendFile: the start message is sent, the first slice is read.
ML_sendFile(t) ==
  /\ impl = "L"
  /\ mx.st[t] = "idle"
  /\ Receiver \in dataChannels[Sender] /\ ChannelOpen
  /\ \E f \in M_Files :
       mx' = [mx EXCEPT !.file[t] = f, !.st[t] = "reading",
                        !.chan = M_Put(t, <<StartMsg(Len(f))>>)]
  /\ UNCHANGED M_Others

\* reader.onload of the call with id t.
ML_readerOnload(t) ==
  /\ impl = "L"
  /\ mx.st[t] = "reading"
  /\ LET chunk == slice(mx.file[t], mx.off[t], mx.off[t] + ScaledChunk)
         offset == mx.off[t] + Len(chunk)
         more == offset < Len(mx.file[t])
     IN mx' = [mx EXCEPT !.off[t] = offset,
                         !.st[t] = IF more THEN "reading" ELSE "done",
                         !.chan = M_Put(t, IF more THEN <<ChunkMsg(chunk, 0, 0)>>
                                                   ELSE <<ChunkMsg(chunk, 0, 0), EndMsg>>)]
  /\ UNCHANGED M_Others

\* dataChannel.onmessage of webrtc.ts: receivedFiles is looked up by the id of
\* the message.
ML_onmessage ==
  /\ impl = "L"
  /\ mx.chan # <<>>
  /\ LET t == Head(mx.chan).id
         m == Head(mx.chan).m
         r == mx.rf[t]
     IN CASE m.kind = "start" ->
               mx' = [mx EXCEPT !.chan = Tail(@), !.rf[t] = handleFileStart(r, m)]
          [] m.kind = "chunk" /\ r.known ->
               mx' = [mx EXCEPT !.chan = Tail(@), !.rf[t] = handleFileChunk(r, m),
                        !.prog[t] = Append(@,
                           MathRound100(Len(Concat(handleFileChunk(r, m).chunks)), r.size))]
          [] m.kind = "end" /\ r.known ->
               mx' = [mx EXCEPT !.chan = Tail(@), !.rf[t] = handleFileEnd(r),
                        !.out[t] = Concat(r.chunks), !.done[t] = @ + 1]
          [] OTHER -> mx' = [mx EXCEPT !.chan = Tail(@)]
  /\ UNCHANGED M_Others

\* part_000 sendFile up to its first await (off counts the chunks sent).
MH_sendFile(t) ==
  /\ impl = "H"
  /\ mx.st[t] = "idle"
  /\ Receiver \in peers[Sender] /\ Receiver \in dataChannels[Sender] /\ ChannelOpen
  /\ \E f \in M_Files :
       mx' = [mx EXCEPT !.file[t] = f, !.st[t] = "slicing",
                        !.chan = M_Put(t, <<StartMsg(Len(f))>>)]
  /\ UNCHANGED M_Others

\* The loop of part_000's sendFile for the call with id t.
MH_sendFileLoop(t) ==
  /\ impl = "H"
  /\ mx.st[t] = "slicing"
  /\ LET i == mx.off[t]
         total == Ceil(Len(mx.file[t]), ScaledChunk)
         start == i * ScaledChunk
         end == Min(start + ScaledChunk, Len(mx.file[t]))
         last == i + 1 = total
         c == ChunkMsg(slice(mx.file[t], start, end), i, total)
     IN mx' = [mx EXCEPT !.off[t] = i + 1,
                         !.st[t] = IF last THEN "done" ELSE "slicing",
                         !.chan = M_Put(t, IF last THEN <<c, EndMsg>> ELSE <<c>>)]
  /\ UNCHANGED M_Others

\* part_000 handleDataChannelMessage and handleFileChunk: the transfers map is
\* looked up by the id of the message; nothing is kept of a chunk's data.
MH_handleDataChannelMessage ==
  /\ impl = "H"
  /\ mx.chan # <<>>
  /\ LET t == Head(mx.chan).id
         m == Head(mx.chan).m
         r == mx.rf[t]
     IN CASE m.kind = "start" ->
               mx' = [mx EXCEPT !.chan = Tail(@),
                        !.rf[t] = [r EXCEPT !.known = TRUE, !.size = m.size,
                                            !.status = "pending"]]
          [] m.kind = "chunk" /\ r.known ->
               mx' = [mx EXCEPT !.chan = Tail(@),
                        !.prog[t] = Append(@, PV(100 * (m.index + 1), m.total)),
                        !.rf[t].status = IF m.index + 1 >= m.total THEN "completed" ELSE @,
                        !.done[t] = IF m.index + 1 >= m.total THEN @ + 1 ELSE @]
          [] m.kind = "end" /\ r.known ->
               mx' = [mx EXCEPT !.chan = Tail(@), !.rf[t].status = "completed",
                                !.done[t] = @ + 1]
          [] OTHER -> mx' = [mx EXCEPT !.chan = Tail(@)]
  /\ UNCHANGED M_Others

\* The handshake without candidates, then the two transfers.
M_Next ==
  \/ HS_CreateRoom
  \/ HS_JoinRoom
  \/ \E p \in {Creator, Joiner} : HS_Relay(p) \/ HS_Negotiate(p) \/ HS_Transport(p)
  \/ \E t \in TransferIds : ML_sendFile(t) \/ ML_readerOnload(t)
  \/ ML_onmessage
  \/ \E t \in TransferIds : MH_sendFile(t) \/ MH_sendFileLoop(t)
  \/ MH_handleDataChannelMessage

SpecTwoTransfers == Init /\ [][M_Next]_vars

\* A progress value of 100.
IsHundred(v) == ~v.nan /\ v.num = 100 * v.den

\* C34: with two transfers to the same peer under way, the receiver completes
\* each transfer once, hands over for each id the bytes of that transfer's
\* file, and the last progress value of each is 100.
C34_IndependentTransfers ==
  (\A t \in TransferIds : mx.st[t] # "idle")
    => \A t \in TransferIds :
         mx.done[t] > 0
           => /\ mx.done[t] = 1
              /\ mx.out[t] = mx.file[t]
              /\ mx.prog[t] # <<>> /\ IsHundred(mx.prog[t][Len(mx.prog[t])])

\* ---------------------------------------------------------------------------
\* After disconnect.

\* p has called disconnect and no createRoom or joinRoom of p has run or is
\* running since.
TornDown(p) ==
  /\ calls.left[p] > 0
  /\ ~signalingInterval[p]
  /\ ~joinPending[p]
  /\ \A th \in threads[p] : th.kind # "join"

\* C35: from the return of disconnect() until the next createRoom() or
\* joinRoom(), the process creates no session and no data channel and appends
\* no signaling message, also when a handler or a poll that was suspended at
\* an await resumes.
C35_NoSessionAfterTeardown ==
  [][\A p \in Peers :
       (TornDown(p) /\ TornDown(p)')
         => /\ peers'[p] \subseteq peers[p]
            /\ dataChannels'[p] \subseteq dataChannels[p]
            /\ made'[p] = made[p]
            /\ \A m \in sent' \ sent : m.from # p]_vars

\* ---------------------------------------------------------------------------
\* Pairing of the peer callbacks.

\* C36: onPeerDisconnected(q) is never called more often than
\* onPeerConnected(q): every call answers an earlier call of onPeerConnected
\* that no other call has answered, so a leave or a transport event for a peer
\* without session calls nothing.
C36_ConnectedBeforeDisconnected ==
  \A p \in Peers : \A q \in Peers \ {p} :
    cbDisconnected[p][q] <= cbConnected[p][q]

\* ---------------------------------------------------------------------------
\* Connections left open.

\* C37: a process has at most one open connection for a peer: when it creates
\* a connection for q, the one it created before for q has been closed (by a
\* leave of q handled just before, at the latest).
C37_OneLiveTransport ==
  [][\A p \in Peers : \A q \in Peers \ {p} :
       made'[p][q] > made[p][q]
         => \/ conn[p][q].state = "closed"
            \/ \E i \in NewFrom(p, q) : TypeOf(dispatched'[p][i]) = "leave"]_vars

(***************************************************************************)
(* The relay of webrtc.ts when a service is used for more than one room:   *)
(* createRoom and joinRoom may be called again without a disconnect.  The  *)
(* handlers are left out: a message counts as examined when a poll of the  *)
(* peer had it in its slice.  For part_000 only the timer is modelled.     *)
(***************************************************************************)
R_MaxLog == 3       \* messages in the log of one room, at most

R_Others == <<sigVars, csz, file, snd, channel, rcv, handed, wire, progress, complete, mx>>

\* clearInterval(this.signalingInterval) when the field is set
R_clearInterval(s, p) ==
  IF s.handle[p] THEN [s EXCEPT !.timers[p] = @ - 1, !.handle[p] = FALSE] ELSE s

\* A start of the polling that leaves the previous timer running.
R_startSignaling_keeps(s, p) ==
  [s EXCEPT !.timers[p] = IF @ = 0 THEN 1 ELSE 2, !.handle[p] = TRUE]

\* startSignaling / startSignalingPolling: the previous timer is cleared, a
\* new one set.
R_startSignaling(s, p) ==
  LET c == R_clearInterval(s, p)
  IN [c EXCEPT !.timers[p] = @ + 1, !.handle[p] = TRUE]

\* sendSignalMessage: pushed on the log of the room of the sender, if the room
\* document exists.
R_sendSignalMessage(s, p) ==
  IF s.roomId[p] = "none" THEN s
  ELSE IF ~s.exists[s.roomId[p]] THEN s
  ELSE [s EXCEPT !.log[s.roomId[p]] = Append(@, p)]

\* pollForMessages: the slice from the cursor on is examined, the cursor set
\* to the length of the log.
R_pollForMessages(s, p) ==
  IF s.roomId[p] = "none" THEN s
  ELSE IF ~s.exists[s.roomId[p]] THEN s
  ELSE LET r == s.roomId[p]
       IN [s EXCEPT !.examined[p] = @ \cup {<<r, i>> : i \in (s.cursor[p] + 1)..Len(s.log[r])},
                    !.cursor[p] = Len(s.log[r])]

\* The log of the room of p has room for one more message.
R_Room(s, p) ==
  IF s.roomId[p] = "none" THEN TRUE
  ELSE IF ~s.exists[s.roomId[p]] THEN TRUE
  ELSE Len(s.log[s.roomId[p]]) < R_MaxLog

\* createRoom: a new room id, its document written, startSignaling with its
\* initial poll.
RL_createRoom(p) ==
  /\ impl = "L"
  /\ \E r \in Rooms :
       /\ ~rl.exists[r]
       /\ LET s1 == [rl EXCEPT !.roomId[p] = r, !.exists[r] = TRUE, !.log[r] = <<>>]
          IN rl' = R_pollForMessages(R_startSignaling(s1, p), p)
  /\ UNCHANGED R_Others

\* joinRoom: the room id taken, the document written if the peer was not in
\* it, the join message sent, startSignaling with its initial poll.
RL_joinRoom(p) ==
  /\ impl = "L"
  /\ \E r \in Rooms :
       LET s1 == [rl EXCEPT !.roomId[p] = r, !.exists[r] = TRUE]
       IN /\ R_Room(s1, p)
          /\ rl' = R_pollForMessages(R_startSignaling(R_sendSignalMessage(s1, p), p), p)
  /\ UNCHANGED R_Others

\* A handler of p sends an offer, an answer or a candidate.
RL_send(p) ==
  /\ impl = "L"
  /\ rl.roomId[p] # "none"
  /\ rl.exists[rl.roomId[p]]
  /\ R_Room(rl, p)
  /\ rl' = R_sendSignalMessage(rl, p)
  /\ UNCHANGED R_Others

\* A timer of p fires.
RL_tick(p) ==
  /\ impl = "L"
  /\ rl.timers[p] > 0
  /\ rl' = R_pollForMessages(rl, p)
  /\ UNCHANGED R_Others

\* disconnect: the timer cleared, the leave sent, the cursor reset.
RL_disconnect(p) ==
  /\ impl = "L"
  /\ R_Room(rl, p)
  /\ rl' = [R_sendSignalMessage(R_clearInterval(rl, p), p) EXCEPT !.cursor[p] = 0]
  /\ UNCHANGED R_Others

\* part_000 createRoom or joinRoom reaches startSignalingPolling.
RH_start(p) ==
  /\ impl = "H"
  /\ \E r \in Rooms : rl' = R_startSignaling([rl EXCEPT !.roomId[p] = r], p)
  /\ UNCHANGED R_Others

\* part_000 disconnect: the timer cleared.
RH_disconnect(p) ==
  /\ impl = "H"
  /\ rl' = R_clearInterval(rl, p)
  /\ UNCHANGED R_Others

Rooms_Next ==
  \E p \in H_Peers :
    \/ RL_createRoom(p)
    \/ RL_joinRoom(p)
    \/ RL_send(p)
    \/ RL_tick(p)
    \/ RL_disconnect(p)
    \/ RH_start(p)
    \/ RH_disconnect(p)

SpecRooms == Init /\ [][Rooms_Next]_vars

\* C38: the cursor of a process goes down only in disconnect(), and no
\* message of another peer lies below the cursor of a polling process in the
\* log of its room without a poll of that process having examined it.
C38_CursorSound ==
  [][\A p \in H_Peers :
       /\ rl'.cursor[p] < rl.cursor[p] => ~rl'.handle[p]
       /\ (rl'.handle[p] /\ rl'.roomId[p] # "none")
            => \A i \in 1..Min(rl'.cursor[p], Len(rl'.log[rl'.roomId[p]])) :
                 rl'.log[rl'.roomId[p]][i] # p
                   => <<rl'.roomId[p], i>> \in rl'.examined[p]]_vars

\* C39: a process has at most one active poll timer, the one its
\* signalingInterval field names, however often createRoom and joinRoom are
\* called again.
C39_SinglePollTimer ==
  \A p \in H_Peers : rl.timers[p] <= 1 /\ (rl.timers[p] = 1 <=> rl.handle[p])

\* A process that went on from room r1 to room r2 without a disconnect.
C39_Witness ==
  \E p \in H_Peers :
    rl.log["r1"] = <<p>> /\ rl.roomId[p] = "r2" /\ rl.timers[p] = 1

(***************************************************************************)
(* One file sent while the remote end of the data channel also sends a     *)
(* chunk or an end message out of turn: before the start of the transfer,  *)
(* in its course or after its end.                                         *)
(***************************************************************************)
S_MaxStray == 1     \* messages sent out of turn in one run, at most

\* The messages sent out of turn: a chunk that is the only one of its file, a
\* chunk that is the first of two, an end.
StrayMsgs == {ChunkMsg(<<0>>, 0, 1), ChunkMsg(<<0>>, 0, 2), EndMsg}

\* The remote end sends a message of the transfer out of turn on the open
\* channel; dataChannel.onmessage is handed it like any other.
S_Stray ==
  /\ ChannelOpen
  /\ calls.stray < S_MaxStray
  /\ \E m \in StrayMsgs : Send(<<m>>)
  /\ calls' = [calls EXCEPT !.stray = @ + 1]
  /\ UNCHANGED <<impl, store, nextId, roomId, signalingInterval, lastMessageIndex,
                 peers, dataChannels, conn, tasks, joinPending, threads, dispatched,
                 rejected, sent, cbConnected, cbDisconnected, made>>
  /\ UNCHANGED <<csz, file, snd, rcv, handed, progress, complete, mx, rl>>

\* The handshake without candidates, one file, the messages out of turn.
S_Next ==
  \/ HS_CreateRoom
  \/ HS_JoinRoom
  \/ \E p \in {Creator, Joiner} : HS_Relay(p) \/ HS_Negotiate(p) \/ HS_Transport(p)
  \/ L_sendFile
  \/ L_readerOnload
  \/ L_onmessage
  \/ H_sendFile
  \/ H_sendFileLoop
  \/ H_handleDataChannelMessage
  \/ S_Stray

SpecStray == Init /\ [][S_Next]_vars

\* The messages the receiver has handled so far, in order.
Handled == SubSeq(wire, 1, Len(wire) - Len(channel))

\* No start was handled yet, or an end was handled and no start since.
NoRecord ==
  \/ \A i \in 1..Len(Handled) : Handled[i].kind # "start"
  \/ \E i \in 1..Len(Handled) :
       /\ Handled[i].kind = "end"
       /\ \A j \in (i + 1)..Len(Handled) : Handled[j].kind # "start"

\* C40: a chunk or end message handled while its transfer has no receive
\* record (no start handled, or its end already handled) changes nothing of
\* the receiver's transfer state and calls neither onTransferProgress nor
\* onTransferComplete.
C40_UnknownIgnored ==
  [][(NoRecord /\ (Handles("chunk") \/ Handles("end")))
       => UNCHANGED <<rcv, handed, progress, complete>>]_vars

====
